---- MODULE Spec2Model ----
(***************************************************************************)
(* Model of the resilient completion gateway of ai-tutor-backend           *)
(* (ChatService in src/unnamed/part_000): the model-fallback loop          *)
(* generateWithFallback, the response normalisation and the error          *)
(* classification of sendMessage, with several requests interleaved at     *)
(* the await points of the provider calls.                                 *)
(*                                                                         *)
(* JavaScript strings are modelled as sequences of one-character strings,  *)
(* so that includes(), toLowerCase(), replace(), trim() and JSON.parse()   *)
(* are computed character by character.                                    *)
(***************************************************************************)
EXTENDS Integers, Sequences, FiniteSets, TLC

\* ------------------------------------------------------------------------
\* Bounds
\* ------------------------------------------------------------------------

\* Number of request slots that can be in progress at the same time.
MaxRequests == 2

Requests == 1..MaxRequests

\* Longest chat history a request body carries.
MaxHistory == 12

\* Period with which the kinds of turn of a history repeat.
PatternPeriod == 3

\* Longest string value, in tokens, of the objects a model emits.
MaxValueLen == 3

\* ------------------------------------------------------------------------
\* Program constants
\* ------------------------------------------------------------------------

\* const GEMINI_MODELS = [ ... ] (three entries; the model works with the
\* 0-based positions of the list).
GEMINI_MODELS == <<"gemini-3-flash-preview", "gemini-2.5-flash", "gemini-2.0-flash">>

NumModels == Len(GEMINI_MODELS)

HTTP_INTERNAL_SERVER_ERROR == 500

HTTP_TOO_MANY_REQUESTS == 429

\* ------------------------------------------------------------------------
\* String primitives
\* ------------------------------------------------------------------------

UpperCaseLetters == <<"A","B","C","D","E","F","G","H","I","J","K","L","M","N","O","P","Q","R","S","T","U","V","W","X","Y","Z">>

LowerCaseLetters == <<"a","b","c","d","e","f","g","h","i","j","k","l","m","n","o","p","q","r","s","t","u","v","w","x","y","z">>

\* String.prototype.toLowerCase, one character.
ToLowerChar(c) ==
  IF \E k \in 1..26 : UpperCaseLetters[k] = c
    THEN LowerCaseLetters[CHOOSE k \in 1..26 : UpperCaseLetters[k] = c]
    ELSE c

\* String.prototype.toLowerCase.
ToLowerCase(s) == [k \in 1..Len(s) |-> ToLowerChar(s[k])]

\* needle occurs in s at position p (1-based).
MatchesAt(s, p, needle) ==
  /\ p + Len(needle) - 1 <= Len(s)
  /\ \A k \in 1..Len(needle) : s[p + k - 1] = needle[k]

\* String.prototype.includes.
Includes(s, needle) == \E p \in 1..(Len(s) + 1) : MatchesAt(s, p, needle)

Needle429 == <<"4","2","9">>

NeedleTooMany == <<"t","o","o"," ","m","a","n","y"," ","r","e","q","u","e","s","t","s">>

NeedleExhausted == <<"r","e","s","o","u","r","c","e"," ","e","x","h","a","u","s","t","e","d">>

NeedleQuota == <<"q","u","o","t","a">>

NeedleRateLimit == <<"r","a","t","e"," ","l","i","m","i","t">>

NeedleApiKey == <<"A","P","I","_","K","E","Y">>

InvalidApiKeyMsg == <<"I","n","v","a","l","i","d"," ","A","P","I"," ","k","e","y"," ","c","o","n","f","i","g","u","r","a","t","i","o","n">>

RateLimitedMsg == <<"A","l","l"," ","A","I"," ","m","o","d","e","l","s"," ","a","r","e"," ","c","u","r","r","e","n","t","l","y"," ","r","a","t","e"," ","l","i","m","i","t","e","d","."," ","P","l","e","a","s","e"," ","t","r","y"," ","a","g","a","i","n"," ","l","a","t","e","r",".">>

FailedPrefix == <<"F","a","i","l","e","d"," ","t","o"," ","g","e","t"," ","A","I"," ","r","e","s","p","o","n","s","e",":"," ">>

UnknownErrorMsg == <<"U","n","k","n","o","w","n"," ","e","r","r","o","r">>

AllUnavailableMsg == <<"A","l","l"," ","G","e","m","i","n","i"," ","m","o","d","e","l","s"," ","a","r","e"," ","u","n","a","v","a","i","l","a","b","l","e">>

\* ------------------------------------------------------------------------
\* Inputs: what the provider and the callers can supply
\* ------------------------------------------------------------------------

\* Messages of the errors the provider may reject an invocation with.
Msg429 == <<"4","2","9">>

MsgQuotaUpper == <<"Q","u","o","t","a">>

MsgQuotaApiKey == <<"q","u","o","t","a"," ","A","P","I","_","K","E","Y">>

MsgBoom == <<"b","o","o","m">>

MsgEmpty == <<>>

MsgApiKey == <<"A","P","I","_","K","E","Y">>

ProviderMessages == {Msg429, MsgQuotaUpper, MsgQuotaApiKey, MsgBoom, MsgEmpty, MsgApiKey}

\* Request slot 1 is driven with the full range of provider outcomes; the
\* other slots are concurrent traffic: slot 2 draws one representative of
\* each class of outcome (rate-limit error, other error, text), the slots
\* beyond it succeed or are rate limited.
MessagesOf(r) ==
  IF r = 1 THEN ProviderMessages
  ELSE IF r = 2 THEN {Msg429, MsgBoom}
  ELSE {Msg429}

\* Utterance of the caller of each slot.
UserMessageOf(r) == IF r = 1 THEN <<"h","i">> ELSE <<"y","o">>

\* ------------------------------------------------------------------------
\* Errors
\* ------------------------------------------------------------------------

\* An Error object: its message, and the model whose invocation raised it
\* (-1 for an error the service constructs itself).  Each request invokes a
\* model at most once, so within a request the model identifies the object.
MakeError(message, model) == [message |-> message, model |-> model]

\* let lastError: Error | null = null
NullError == [message |-> <<>>, model |-> -2]

\* private isRateLimitError(error: Error): boolean
isRateLimitError(error) ==
  LET message == ToLowerCase(error.message)
  IN \/ Includes(message, Needle429)
     \/ Includes(message, NeedleTooMany)
     \/ Includes(message, NeedleExhausted)
     \/ Includes(message, NeedleQuota)
     \/ Includes(message, NeedleRateLimit)

\* ------------------------------------------------------------------------
\* Response normalisation: fence stripping, trim, JSON.parse
\* ------------------------------------------------------------------------

\* The backtick character (the lexer of TLA+ does not accept it in a string).
BT == "<backtick>"

FenceJson == <<BT,BT,BT,"j","s","o","n">>

Fence == <<BT,BT,BT>>

RECURSIVE StripFrom(_, _, _)
\* s.replace(/<marker>\n?/g, '') from position p on: every occurrence of the
\* marker, with the newline that may follow it, is removed.
StripFrom(s, p, marker) ==
  IF ~(\E q \in p..Len(s) : MatchesAt(s, q, marker)) THEN SubSeq(s, p, Len(s))
  ELSE LET hit   == CHOOSE q \in p..Len(s) :
                      /\ MatchesAt(s, q, marker)
                      /\ \A k \in p..(q - 1) : ~MatchesAt(s, k, marker)
           after == hit + Len(marker)
           rest  == IF after <= Len(s) /\ s[after] = "\n" THEN after + 1 ELSE after
       IN SubSeq(s, p, hit - 1) \o StripFrom(s, rest, marker)

IsWhitespace(c) == c \in {" ", "\n", "\t", "\r"}

\* String.prototype.trim.
Trim(s) ==
  IF \A k \in 1..Len(s) : IsWhitespace(s[k]) THEN <<>>
  ELSE LET first == CHOOSE a \in 1..Len(s) :
                      /\ ~IsWhitespace(s[a])
                      /\ \A k \in 1..(a - 1) : IsWhitespace(s[k])
           last  == CHOOSE b \in 1..Len(s) :
                      /\ ~IsWhitespace(s[b])
                      /\ \A k \in (b + 1)..Len(s) : IsWhitespace(s[k])
       IN SubSeq(s, first, last)

\* text.replace(/<fence>json\n?/g, '').replace(/<fence>\n?/g, '').trim(),
\* <fence> being the three backticks.  (Each stage is bound through a
\* singleton set, which makes TLC evaluate it once.)
CleanText(text) ==
  CHOOSE cleaned \in {Trim(b) : b \in {StripFrom(a, 1, Fence) :
                                        a \in {StripFrom(text, 1, FenceJson)}}} : TRUE

\* JSON values, tagged: t is the JavaScript kind, v the content.
JNull == [t |-> "null", v |-> <<>>]

JString(s) == [t |-> "string", v |-> s]

JNumber(digits) == [t |-> "number", v |-> digits]

JBoolean(b) == [t |-> "boolean", v |-> b]

JArray(items) == [t |-> "array", v |-> items]

\* An object is the sequence of its <<key, value>> properties in insertion
\* order, each key once.
JObject(properties) == [t |-> "object", v |-> properties]

HasProperty(properties, name) == \E k \in 1..Len(properties) : properties[k][1] = name

\* Value of the property called name (which the object has).
GetProperty(properties, name) ==
  properties[CHOOSE k \in 1..Len(properties) : properties[k][1] = name][2]

\* obj[name] = value: a new key is added at the end, a repeated key keeps
\* its place and takes the later value, as in JSON.parse.
SetProperty(properties, name, value) ==
  IF HasProperty(properties, name)
    THEN [properties EXCEPT ![CHOOSE k \in 1..Len(properties) : properties[k][1] = name] = <<name, value>>]
    ELSE Append(properties, <<name, value>>)

ParseFail == [ok |-> FALSE, val |-> JNull, pos |-> 0]

ParseOk(val, pos) == [ok |-> TRUE, val |-> val, pos |-> pos]

Digits == {"0","1","2","3","4","5","6","7","8","9"}

LitNull == <<"n","u","l","l">>

LitTrue == <<"t","r","u","e">>

LitFalse == <<"f","a","l","s","e">>

RECURSIVE SkipWhitespace(_, _)
\* First position from p on that holds no JSON whitespace.
SkipWhitespace(s, p) ==
  IF p <= Len(s) /\ IsWhitespace(s[p]) THEN SkipWhitespace(s, p + 1) ELSE p

\* A string literal starting at the quote at p.  Escapes are not modelled:
\* a backslash or a raw control character inside the literal is rejected.
ParseString(s, p) ==
  IF ~(\E q \in (p + 1)..Len(s) : s[q] = "\"") THEN ParseFail
  ELSE LET close == CHOOSE q \in (p + 1)..Len(s) :
                      /\ s[q] = "\""
                      /\ \A k \in (p + 1)..(q - 1) : s[k] # "\""
           body  == SubSeq(s, p + 1, close - 1)
       IN IF \E k \in 1..Len(body) : body[k] \in {"\\", "\n", "\t", "\r"}
            THEN ParseFail
            ELSE ParseOk(JString(body), close + 1)

RECURSIVE DigitsEnd(_, _)
\* First position from p on that holds no digit.
DigitsEnd(s, p) ==
  IF p <= Len(s) /\ s[p] \in Digits THEN DigitsEnd(s, p + 1) ELSE p

\* An unsigned integer literal starting at the digit at p (sign, fraction
\* and exponent are not modelled); a leading zero ends the literal.
ParseNumber(s, p) ==
  LET stop == IF s[p] = "0" THEN p + 1 ELSE DigitsEnd(s, p)
  IN ParseOk(JNumber(SubSeq(s, p, stop - 1)), stop)

RECURSIVE ParseValue(_, _)
RECURSIVE ParseMembers(_, _, _)
RECURSIVE ParseElements(_, _, _)

\* The members of an object, the first key expected at p.
ParseMembers(s, p, acc) ==
  IF p > Len(s) \/ s[p] # "\"" THEN ParseFail
  ELSE LET key == ParseString(s, p)
       IN IF ~key.ok THEN ParseFail
          ELSE LET colon == SkipWhitespace(s, key.pos)
               IN IF colon > Len(s) \/ s[colon] # ":" THEN ParseFail
                  ELSE LET val == ParseValue(s, colon + 1)
                       IN IF ~val.ok THEN ParseFail
                          ELSE LET next  == SkipWhitespace(s, val.pos)
                                   pairs == SetProperty(acc, key.val.v, val.val)
                               IN IF next > Len(s) THEN ParseFail
                                  ELSE IF s[next] = ","
                                    THEN ParseMembers(s, SkipWhitespace(s, next + 1), pairs)
                                  ELSE IF s[next] = "}"
                                    THEN ParseOk(JObject(pairs), next + 1)
                                  ELSE ParseFail

\* The elements of an array, the first value expected at p.
ParseElements(s, p, acc) ==
  LET val == ParseValue(s, p)
  IN IF ~val.ok THEN ParseFail
     ELSE LET next  == SkipWhitespace(s, val.pos)
              items == Append(acc, val.val)
          IN IF next > Len(s) THEN ParseFail
             ELSE IF s[next] = "," THEN ParseElements(s, next + 1, items)
             ELSE IF s[next] = "]" THEN ParseOk(JArray(items), next + 1)
             ELSE ParseFail

\* One JSON value from p on, leading whitespace skipped.
ParseValue(s, p) ==
  LET q == SkipWhitespace(s, p)
  IN IF q > Len(s) THEN ParseFail
     ELSE IF s[q] = "{"
       THEN LET m == SkipWhitespace(s, q + 1)
            IN IF m <= Len(s) /\ s[m] = "}"
                 THEN ParseOk(JObject(<<>>), m + 1)
                 ELSE ParseMembers(s, m, <<>>)
     ELSE IF s[q] = "["
       THEN LET m == SkipWhitespace(s, q + 1)
            IN IF m <= Len(s) /\ s[m] = "]"
                 THEN ParseOk(JArray(<<>>), m + 1)
                 ELSE ParseElements(s, m, <<>>)
     ELSE IF s[q] = "\"" THEN ParseString(s, q)
     ELSE IF s[q] \in Digits THEN ParseNumber(s, q)
     ELSE IF MatchesAt(s, q, LitNull) THEN ParseOk(JNull, q + Len(LitNull))
     ELSE IF MatchesAt(s, q, LitTrue) THEN ParseOk(JBoolean(TRUE), q + Len(LitTrue))
     ELSE IF MatchesAt(s, q, LitFalse) THEN ParseOk(JBoolean(FALSE), q + Len(LitFalse))
     ELSE ParseFail

\* JSON.parse: one value and nothing but whitespace after it; ok = FALSE
\* stands for the SyntaxError it throws.
JSONParse(s) ==
  LET r == ParseValue(s, 1)
  IN IF r.ok /\ SkipWhitespace(s, r.pos) > Len(s) THEN r ELSE ParseFail

KeyOriginal == <<"o","r","i","g","i","n","a","l">>

KeyCorrection == <<"c","o","r","r","e","c","t","i","o","n">>

KeyCorrectionPronunciation == <<"c","o","r","r","e","c","t","i","o","n","P","r","o","n","u","n","c","i","a","t","i","o","n">>

KeyExplanation == <<"e","x","p","l","a","n","a","t","i","o","n">>

KeyReply == <<"r","e","p","l","y">>

KeyPronunciation == <<"p","r","o","n","u","n","c","i","a","t","i","o","n">>

\* The fields of ChatResponseData.
ChatResponseData == {KeyOriginal, KeyCorrection, KeyCorrectionPronunciation,
                     KeyExplanation, KeyReply, KeyPronunciation}

\* Variant: the reply of the fallback is the cleaned text.
FallbackData_CleanedReply(userMessage, text) ==
  JObject(<< <<KeyOriginal, JString(userMessage)>>,
             <<KeyCorrection, JString(userMessage)>>,
             <<KeyCorrectionPronunciation, JString(<<>>)>>,
             <<KeyExplanation, JString(<<>>)>>,
             <<KeyReply, JString(CleanText(text))>>,
             <<KeyPronunciation, JString(<<>>)>> >>)

\* The object literal of the inner catch of sendMessage.
FallbackData(userMessage, text) ==
  JObject(<< <<KeyOriginal, JString(userMessage)>>,
             <<KeyCorrection, JString(userMessage)>>,
             <<KeyCorrectionPronunciation, JString(<<>>)>>,
             <<KeyExplanation, JString(<<>>)>>,
             <<KeyReply, JString(text)>>,
             <<KeyPronunciation, JString(<<>>)>> >>)

SyntaxErrorMsg == <<"U","n","e","x","p","e","c","t","e","d"," ","t","o","k","e","n">>

\* Variant: the SyntaxError of JSON.parse is not caught.
ParseResponse_NoCatch(userMessage, text) ==
  LET jsonResponse == CHOOSE j \in {JSONParse(c) : c \in {CleanText(text)}} : TRUE
  IN IF jsonResponse.ok
       THEN [kind |-> "return", value |-> [success |-> TRUE, data |-> jsonResponse.val]]
       ELSE [kind |-> "throw", value |-> MakeError(SyntaxErrorMsg, -1)]

\* The inner try/catch of sendMessage, as a completion: the ChatResponseDto
\* it returns for the raw text of the model.  Its catch has no parameter and
\* no throw, so the completion is always a return.
ParseResponse(userMessage, text) ==
  LET jsonResponse == CHOOSE j \in {JSONParse(c) : c \in {CleanText(text)}} : TRUE
  IN IF jsonResponse.ok
       THEN [kind |-> "return", value |-> [success |-> TRUE, data |-> jsonResponse.val]]
       ELSE [kind |-> "return", value |-> [success |-> TRUE, data |-> FallbackData(userMessage, text)]]

\* Variant: the rate-limit test comes before the test for 'API_KEY'.
ClassifyError_RateLimitFirst(error) ==
  IF isRateLimitError(error)
    THEN [status |-> HTTP_TOO_MANY_REQUESTS, message |-> RateLimitedMsg]
  ELSE IF Includes(error.message, NeedleApiKey)
    THEN [status |-> HTTP_INTERNAL_SERVER_ERROR, message |-> InvalidApiKeyMsg]
  ELSE [status |-> HTTP_INTERNAL_SERVER_ERROR,
        message |-> FailedPrefix \o (IF error.message # <<>> THEN error.message
                                                             ELSE UnknownErrorMsg)]

\* Variant: the generic condition does not carry the underlying message.
ClassifyError_NoDetail(error) ==
  IF Includes(error.message, NeedleApiKey)
    THEN [status |-> HTTP_INTERNAL_SERVER_ERROR, message |-> InvalidApiKeyMsg]
  ELSE IF isRateLimitError(error)
    THEN [status |-> HTTP_TOO_MANY_REQUESTS, message |-> RateLimitedMsg]
  ELSE [status |-> HTTP_INTERNAL_SERVER_ERROR, message |-> FailedPrefix \o UnknownErrorMsg]

\* The outer catch of sendMessage: the HttpException it throws for the
\* error it caught.
ClassifyError(error) ==
  IF Includes(error.message, NeedleApiKey)
    THEN [status |-> HTTP_INTERNAL_SERVER_ERROR, message |-> InvalidApiKeyMsg]
  ELSE IF isRateLimitError(error)
    THEN [status |-> HTTP_TOO_MANY_REQUESTS, message |-> RateLimitedMsg]
  ELSE [status |-> HTTP_INTERNAL_SERVER_ERROR,
        message |-> FailedPrefix \o (IF error.message # <<>> THEN error.message
                                                             ELSE UnknownErrorMsg)]

\* Raw texts the models may answer with.
TextFencedObject == <<BT,BT,BT,"j","s","o","n","\n","{","\"","o","r","i","g","i","n","a","l","\"",":","\"","h","i","\"",",","\"","c","o","r","r","e","c","t","i","o","n","\"",":","\"","h","i","\"",",","\"","c","o","r","r","e","c","t","i","o","n","P","r","o","n","u","n","c","i","a","t","i","o","n","\"",":","\"","\"",",","\"","e","x","p","l","a","n","a","t","i","o","n","\"",":","\"","\"",",","\"","r","e","p","l","y","\"",":","\"","o","k","\"",",","\"","p","r","o","n","u","n","c","i","a","t","i","o","n","\"",":","\"","\"","}","\n",BT,BT,BT>>

TextNull == <<"n","u","l","l">>

TextSorry == <<"s","o","r","r","y">>

TextFencedSorry == <<BT,BT,BT,"\n","s","o","r","r","y","\n",BT,BT,BT>>

TextPartial == <<"{","\"","r","e","p","l","y","\"",":","n","u","l","l","}">>

ModelTexts == {TextFencedObject, TextNull, TextSorry, TextFencedSorry, TextPartial}

TextsOf(r) == IF r = 1 THEN ModelTexts ELSE {TextSorry}

\* The tokens the string values of an emitted object are made of: a letter,
\* a space and the fence marker.
ValueTokens == {<<"a">>, <<" ">>, Fence}

RECURSIVE ValuesUpTo(_)
\* The string values of at most n tokens.
ValuesUpTo(n) ==
  IF n = 0 THEN {<<>>}
  ELSE LET shorter == ValuesUpTo(n - 1)
       IN shorter \cup {value \o token : value \in shorter, token \in ValueTokens}

\* The text of the object with the one property reply, of the given value.
ReplyObjectText(value) ==
  <<"{","\"","r","e","p","l","y","\"",":","\"">> \o value \o <<"\"","}">>

\* The ways a model hands out an object: bare, in a json fence, in a plain
\* fence.
Wrappers == {"bare", "json", "plain"}

Wrap(wrapper, object) ==
  IF wrapper = "bare" THEN object
  ELSE IF wrapper = "json" THEN FenceJson \o <<"\n">> \o object \o <<"\n">> \o Fence
  ELSE Fence \o <<"\n">> \o object \o <<"\n">> \o Fence

\* Texts of models that answer with an object, wrapped or not.
FencedTexts ==
  {Wrap(wrapper, ReplyObjectText(value)) :
     wrapper \in Wrappers, value \in ValuesUpTo(MaxValueLen)}

\* ------------------------------------------------------------------------
\* Prompt building
\*
\* A string built by a template literal is modelled as the sequence of its
\* parts (the literal chunks and the interpolated values), each part a
\* string; its value is the concatenation of the parts.  A character of the
\* source outside ASCII is written as a backslash, u and its code point.
\* ------------------------------------------------------------------------

\* export const SUPPORTED_LANGUAGES
SUPPORTED_LANGUAGES == <<"english", "japanese", "korean", "chinese", "french", "german", "spanish">>

SupportedLanguage == {SUPPORTED_LANGUAGES[k] : k \in 1..Len(SUPPORTED_LANGUAGES)}

\* const LANGUAGE_CONFIGS: Record<SupportedLanguage, LanguageConfig>
LANGUAGE_CONFIGS ==
  [ english |->
      [ name |-> "English",
        nativeName |-> "English",
        tutorDescription |-> "a professional British/American English speaking tutor",
        pronunciationSystem |-> "IPA (International Phonetic Alphabet) with American English symbols",
        pronunciationExample |-> "/\\u0261re\\u026at \\u02c8\\u025bf\\u0259rt!/",
        exampleOriginal |-> "I go to school yesterday",
        exampleCorrection |-> "I went to school yesterday",
        exampleCorrectionPronunciation |-> "/a\\u026a w\\u025bnt tu skul \\u02c8j\\u025bst\\u0259r\\u02ccde\\u026a/",
        exampleExplanation |-> "We use 'went' (past tense) because 'yesterday' indicates a past time.",
        exampleReply |-> "Great effort! You're talking about the past, so we use 'went' instead of 'go'. Can you tell me more about what you did at school yesterday?",
        examplePronunciation |-> "/\\u0261re\\u026at \\u02c8\\u025bf\\u0259rt! j\\u028ar \\u02c8t\\u0254k\\u026a\\u014b \\u0259\\u02c8ba\\u028at \\u00f0\\u0259 p\\u00e6st/",
        specialRules |-> <<"Use primary stress mark \\u02c8 before stressed syllables",
                           "Focus on common pronunciation mistakes for non-native speakers">> ],
    japanese |->
      [ name |-> "Japanese",
        nativeName |-> "\\u65e5\\u672c\\u8a9e",
        tutorDescription |-> "a professional Japanese language tutor (\\u65e5\\u672c\\u8a9e\\u306e\\u5148\\u751f)",
        pronunciationSystem |-> "Romaji with pitch accent markers (High: \\ua71b, Low: \\ua71c) and Hiragana reading",
        pronunciationExample |-> "\\u3059\\ua71b\\u3054\\ua71c\\u3044 (sugoi)",
        exampleOriginal |-> "\\u6628\\u65e5\\u5b66\\u6821\\u306b\\u884c\\u304f\\u307e\\u3057\\u305f",
        exampleCorrection |-> "\\u6628\\u65e5\\u5b66\\u6821\\u306b\\u884c\\u304d\\u307e\\u3057\\u305f",
        exampleCorrectionPronunciation |-> "\\u304d\\ua71b\\u306e\\ua71c\\u3046 \\u304c\\ua71b\\u3063\\u3053\\ua71c\\u3046\\u306b \\u3044\\ua71b\\u304d\\u307e\\ua71c\\u3057\\u305f (kinou gakkou ni ikimashita)",
        exampleExplanation |-> "\\u300c\\u884c\\u304f\\u300d\\u306e\\u904e\\u53bb\\u5f62\\u306f\\u300c\\u884c\\u304d\\u307e\\u3057\\u305f\\u300d\\u3067\\u3059\\u3002\\u300c\\u884c\\u304f\\u307e\\u3057\\u305f\\u300d\\u306f\\u6587\\u6cd5\\u7684\\u306b\\u6b63\\u3057\\u304f\\u3042\\u308a\\u307e\\u305b\\u3093\\u3002",
        exampleReply |-> "\\u3044\\u3044\\u8abf\\u5b50\\u3067\\u3059\\u306d\\uff01\\u904e\\u53bb\\u5f62\\u306e\\u7df4\\u7fd2\\u3092\\u3057\\u307e\\u3057\\u3087\\u3046\\u3002\\u6628\\u65e5\\u3001\\u5b66\\u6821\\u3067\\u4f55\\u3092\\u3057\\u307e\\u3057\\u305f\\u304b\\uff1f",
        examplePronunciation |-> "\\u3044\\ua71b\\u3044\\ua71c \\u3061\\u3087\\ua71b\\u3046\\u3057\\ua71c \\u3067\\u3059\\ua71c\\u306d (ii choushi desu ne)",
        specialRules |-> <<"Pay attention to particle usage (\\u306f, \\u304c, \\u3092, \\u306b, \\u3067, etc.)",
                           "Check verb conjugation forms (\\u3066\\u5f62, \\u305f\\u5f62, \\u307e\\u3059\\u5f62)",
                           "Watch for keigo (\\u656c\\u8a9e) politeness levels",
                           "Include both Hiragana reading and Romaji for pronunciation">> ],
    korean |->
      [ name |-> "Korean",
        nativeName |-> "\\ud55c\\uad6d\\uc5b4",
        tutorDescription |-> "a professional Korean language tutor (\\ud55c\\uad6d\\uc5b4 \\uc120\\uc0dd\\ub2d8)",
        pronunciationSystem |-> "Revised Romanization with Hangul",
        pronunciationExample |-> "\\uc798\\ud588\\uc5b4\\uc694 (jalhaesseoyo)",
        exampleOriginal |-> "\\uc5b4\\uc81c \\ud559\\uad50\\uc5d0 \\uac00\\uc694",
        exampleCorrection |-> "\\uc5b4\\uc81c \\ud559\\uad50\\uc5d0 \\uac14\\uc5b4\\uc694",
        exampleCorrectionPronunciation |-> "\\uc5b4\\uc81c \\ud559\\uad50\\uc5d0 \\uac14\\uc5b4\\uc694 (eoje hakgyoe gasseoyo)",
        exampleExplanation |-> "\\uacfc\\uac70\\ub97c \\ud45c\\ud604\\ud560 \\ub54c\\ub294 '-\\uc558/\\uc5c8\\uc5b4\\uc694'\\ub97c \\uc0ac\\uc6a9\\ud569\\ub2c8\\ub2e4. '\\uac00\\uc694'\\ub294 \\ud604\\uc7ac\\ud615\\uc774\\uc5d0\\uc694.",
        exampleReply |-> "\\uc798\\ud558\\uace0 \\uc788\\uc5b4\\uc694! \\uacfc\\uac70\\ud615 \\uc5f0\\uc2b5\\uc744 \\ud574\\ubcfc\\uae4c\\uc694? \\uc5b4\\uc81c \\ud559\\uad50\\uc5d0\\uc11c \\ubb50 \\ud588\\uc5b4\\uc694?",
        examplePronunciation |-> "\\uc798\\ud558\\uace0 \\uc788\\uc5b4\\uc694 (jalhago isseoyo)",
        specialRules |-> <<"Check for proper honorific levels (\\uc874\\ub313\\ub9d0/\\ubc18\\ub9d0)",
                           "Watch for particle usage (\\uc740/\\ub294, \\uc774/\\uac00, \\uc744/\\ub97c)",
                           "Pay attention to verb conjugation (past, present, future)",
                           "Note pronunciation changes (\\uc5f0\\uc74c, \\uacbd\\uc74c\\ud654, etc.)">> ],
    chinese |->
      [ name |-> "Chinese",
        nativeName |-> "\\u4e2d\\u6587",
        tutorDescription |-> "a professional Mandarin Chinese tutor (\\u4e2d\\u6587\\u8001\\u5e08)",
        pronunciationSystem |-> "Pinyin with tone marks (1: \\u0101, 2: \\u00e1, 3: \\u01ce, 4: \\u00e0)",
        pronunciationExample |-> "h\\u011bn b\\u00e0ng! (\\u5f88\\u68d2!)",
        exampleOriginal |-> "\\u6211\\u6628\\u5929\\u53bb\\u5b66\\u6821\\u4e86",
        exampleCorrection |-> "\\u6211\\u6628\\u5929\\u53bb\\u5b66\\u6821\\u4e86",
        exampleCorrectionPronunciation |-> "w\\u01d2 zu\\u00f3ti\\u0101n q\\u00f9 xu\\u00e9xi\\u00e0o le",
        exampleExplanation |-> "\\u8fd9\\u53e5\\u8bdd\\u662f\\u6b63\\u786e\\u7684\\uff01\"\\u4e86\"\\u8868\\u793a\\u52a8\\u4f5c\\u5b8c\\u6210\\uff0c\\u7528\\u5f97\\u5f88\\u597d\\u3002",
        exampleReply |-> "\\u8bf4\\u5f97\\u5f88\\u597d\\uff01\\u4f60\\u7684\\u4e2d\\u6587\\u5728\\u8fdb\\u6b65\\u3002\\u6628\\u5929\\u5728\\u5b66\\u6821\\u505a\\u4e86\\u4ec0\\u4e48\\uff1f",
        examplePronunciation |-> "shu\\u014d de h\\u011bn h\\u01ceo! n\\u01d0 de zh\\u014dngw\\u00e9n z\\u00e0i j\\u00ecnb\\u00f9.",
        specialRules |-> <<"Always include tone marks in Pinyin",
                           "Check for measure word (\\u91cf\\u8bcd) usage",
                           "Watch for aspect markers (\\u4e86, \\u8fc7, \\u7740)",
                           "Pay attention to word order (SVO structure)">> ],
    french |->
      [ name |-> "French",
        nativeName |-> "Fran\\u00e7ais",
        tutorDescription |-> "a professional French language tutor (professeur de fran\\u00e7ais)",
        pronunciationSystem |-> "IPA with French phonemes and liaison markers",
        pronunciationExample |-> "/t\\u0281\\u025b bj\\u025b\\u0303/ (tr\\u00e8s bien)",
        exampleOriginal |-> "Je suis all\\u00e9 \\u00e0 \\u00e9cole hier",
        exampleCorrection |-> "Je suis all\\u00e9 \\u00e0 l'\\u00e9cole hier",
        exampleCorrectionPronunciation |-> "/\\u0292\\u0259 s\\u0265i\\u203fale a lek\\u0254l j\\u025b\\u0281/",
        exampleExplanation |-> "On utilise l'article d\\u00e9fini contract\\u00e9 \"l'\" devant \"\\u00e9cole\" car le mot commence par une voyelle.",
        exampleReply |-> "Tr\\u00e8s bien ! N'oubliez pas les articles. Qu'avez-vous fait \\u00e0 l'\\u00e9cole hier ?",
        examplePronunciation |-> "/t\\u0281\\u025b bj\\u025b\\u0303! nublije pa lez\\u203fa\\u0281tikl/",
        specialRules |-> <<"Check for gender agreement (le/la, un/une)",
                           "Watch for verb conjugation and tense agreement",
                           "Note liaisons between words",
                           "Pay attention to accent marks (\\u00e9, \\u00e8, \\u00ea, \\u00eb, etc.)">> ],
    german |->
      [ name |-> "German",
        nativeName |-> "Deutsch",
        tutorDescription |-> "a professional German language tutor (Deutschlehrer)",
        pronunciationSystem |-> "IPA with German phonemes",
        pronunciationExample |-> "/ze\\u02d0\\u0250\\u032f gu\\u02d0t/ (sehr gut)",
        exampleOriginal |-> "Ich bin gestern in die Schule gegangen",
        exampleCorrection |-> "Ich bin gestern in die Schule gegangen",
        exampleCorrectionPronunciation |-> "/\\u026a\\u00e7 b\\u026an \\u02c8\\u0261\\u025bst\\u0250n \\u026an di\\u02d0 \\u02c8\\u0283u\\u02d0l\\u0259 \\u0261\\u0259\\u02c8\\u0261a\\u014b\\u0259n/",
        exampleExplanation |-> "Perfekt! Der Satz ist grammatikalisch korrekt. \"Gegangen\" ist das Partizip II von \"gehen\".",
        exampleReply |-> "Sehr gut! Dein Deutsch ist ausgezeichnet. Was hast du gestern in der Schule gemacht?",
        examplePronunciation |-> "/ze\\u02d0\\u0250\\u032f gu\\u02d0t! da\\u026an d\\u0254\\u028ft\\u0283 \\u026ast \\u02c8a\\u028as\\u0261\\u0259\\u02cctsa\\u026a\\u00e7n\\u0259t/",
        specialRules |-> <<"Check for correct case usage (Nominativ, Akkusativ, Dativ, Genitiv)",
                           "Watch for verb position in main and subordinate clauses",
                           "Pay attention to noun gender (der, die, das)",
                           "Note separable prefix verbs">> ],
    spanish |->
      [ name |-> "Spanish",
        nativeName |-> "Espa\\u00f1ol",
        tutorDescription |-> "a professional Spanish language tutor (profesor de espa\\u00f1ol)",
        pronunciationSystem |-> "IPA with Spanish phonemes",
        pronunciationExample |-> "/\\u02c8mui \\u02c8bjen/ (muy bien)",
        exampleOriginal |-> "Yo fui a la escuela ayer",
        exampleCorrection |-> "Ayer fui a la escuela",
        exampleCorrectionPronunciation |-> "/a\\u02c8\\u029de\\u027e fwi a la es\\u02c8kwela/",
        exampleExplanation |-> "En espa\\u00f1ol, es m\\u00e1s natural poner el tiempo al principio. Tambi\\u00e9n, el pronombre \"yo\" es opcional porque el verbo ya indica la persona.",
        exampleReply |-> "\\u00a1Muy bien! Tu espa\\u00f1ol est\\u00e1 mejorando. \\u00bfQu\\u00e9 hiciste en la escuela ayer?",
        examplePronunciation |-> "/\\u02c8mui \\u02c8bjen! tu espa\\u02c8\\u0272ol es\\u02c8ta mexo\\u02c8\\u027eando/",
        specialRules |-> <<"Check for correct verb conjugation (especially irregular verbs)",
                           "Watch for ser vs estar usage",
                           "Pay attention to gender and number agreement",
                           "Note the use of subjunctive mood when appropriate">> ] ]

DecimalDigits == <<"0","1","2","3","4","5","6","7","8","9">>

\* String(n) for 0 <= n < 100, as the sequence of its digits.
DecimalString(n) ==
  IF n < 10 THEN <<DecimalDigits[n + 1]>>
  ELSE <<DecimalDigits[(n \div 10) + 1], DecimalDigits[(n % 10) + 1]>>

RECURSIVE Join(_, _)
\* Array.prototype.join: the items (each a sequence of parts) with the
\* separator between them.
Join(items, separator) ==
  IF Len(items) = 0 THEN <<>>
  ELSE IF Len(items) = 1 THEN items[1]
  ELSE items[1] \o <<separator>> \o Join(Tail(items), separator)

\* config.specialRules.map((rule, index) => <index + 8>. <rule>).join(newline)
SpecialRulesText(config) ==
  Join([k \in 1..Len(config.specialRules) |->
          DecimalString((k - 1) + 8) \o <<". ", config.specialRules[k]>>], "\n")

\* Variant: the worked example is always the English one.
ConfigOf_EnglishExample(language) ==
  [LANGUAGE_CONFIGS[language] EXCEPT
     !.exampleOriginal = LANGUAGE_CONFIGS["english"].exampleOriginal,
     !.exampleCorrection = LANGUAGE_CONFIGS["english"].exampleCorrection,
     !.exampleCorrectionPronunciation = LANGUAGE_CONFIGS["english"].exampleCorrectionPronunciation,
     !.exampleExplanation = LANGUAGE_CONFIGS["english"].exampleExplanation,
     !.exampleReply = LANGUAGE_CONFIGS["english"].exampleReply,
     !.examplePronunciation = LANGUAGE_CONFIGS["english"].examplePronunciation]

\* const config = LANGUAGE_CONFIGS[language]
ConfigOf(language) == LANGUAGE_CONFIGS[language]

\* private getSystemPrompt(language: SupportedLanguage): string
getSystemPrompt(language) ==
  LET config == ConfigOf(language)
  IN <<"You are ", config.tutorDescription, ". Your role is to help students improve their ", config.name, " (", config.nativeName, ") speaking skills.\n\nWhen a student speaks, you must respond in a structured JSON format with the following fields:\n- original: The original text the student said (exactly as they said it)\n- correction: The corrected version if there are any grammar, pronunciation, or vocabulary mistakes\n- correctionPronunciation: ", config.pronunciationSystem, " transcription of the CORRECTED sentence (this helps students practice the correct pronunciation)\n- explanation: A brief, friendly explanation of the correction (if any mistakes were found) - respond in ", config.name, "\n- reply: Your natural, conversational reply as a tutor in ", config.name, " (encourage the student, ask follow-up questions, or provide feedback)\n- pronunciation: ", config.pronunciationSystem, " transcription of your reply\n\nIMPORTANT RULES:\n1. Always return valid JSON only, no additional text before or after\n2. If the student's ", config.name, " is perfect, set \"correction\" to the same as \"original\" and \"correctionPronunciation\" to the pronunciation of the original\n3. Be encouraging and friendly in your \"reply\" - always respond in ", config.name, "\n4. Focus on natural conversation flow in ", config.name, "\n5. If the student makes multiple mistakes, correct the most important ones\n6. For pronunciation fields, always use ", config.pronunciationSystem, "\n7. The \"correctionPronunciation\" field is REQUIRED - it helps students practice saying the sentence correctly\n">>
     \o SpecialRulesText(config)
     \o <<"\n\nExample response format:\n{\n  \"original\": \"", config.exampleOriginal, "\",\n  \"correction\": \"", config.exampleCorrection, "\",\n  \"correctionPronunciation\": \"", config.exampleCorrectionPronunciation, "\",\n  \"explanation\": \"", config.exampleExplanation, "\",\n  \"reply\": \"", config.exampleReply, "\",\n  \"pronunciation\": \"", config.examplePronunciation, "\"\n}">>


\* The property targetLanguage is absent from the request body.
Omitted == "<omitted>"

\* Variant: an omitted language falls back to the first entry after English.
ControllerLanguage_WrongDefault(targetLanguage) ==
  IF targetLanguage = Omitted \/ targetLanguage = "" THEN "japanese" ELSE targetLanguage

\* ChatController.sendMessage: dto.targetLanguage || 'english'
ControllerLanguage(targetLanguage) ==
  IF targetLanguage = Omitted \/ targetLanguage = "" THEN "english" ELSE targetLanguage

\* The default of the parameter of ChatService.sendMessage:
\* targetLanguage: SupportedLanguage = 'english'
DefaultLanguage(targetLanguage) ==
  IF targetLanguage = Omitted THEN "english" ELSE targetLanguage

\* chatHistory.slice(-10) keeps this many turns.
HistoryWindow == 10

\* Variant: the window is taken from the head of the history.
RecentHistory_FromHead(chatHistory) ==
  SubSeq(chatHistory, 1, IF Len(chatHistory) < HistoryWindow THEN Len(chatHistory) ELSE HistoryWindow)

\* const recentHistory = chatHistory.slice(-10)
RecentHistory(chatHistory) ==
  SubSeq(chatHistory,
         IF Len(chatHistory) > HistoryWindow THEN Len(chatHistory) - HistoryWindow + 1 ELSE 1,
         Len(chatHistory))

\* A ChatMessage: role, content, and the optional data with its optional
\* reply (hasData, hasReply say which of them are present).
ChatMessage(role, content, hasData, hasReply, reply) ==
  [role |-> role, content |-> content, hasData |-> hasData, hasReply |-> hasReply, reply |-> reply]

\* msg.data?.reply is truthy: present and not the empty string.
HasTruthyReply(msg) == msg.hasData /\ msg.hasReply /\ msg.reply # ""

\* The callback of map: the line a turn is rendered as ('' is the empty
\* sequence of parts).
RenderTurn(msg) ==
  IF msg.role = "user" THEN <<"Student: ", msg.content>>
  ELSE IF HasTruthyReply(msg) THEN <<"Tutor: ", msg.reply>>
  ELSE <<>>

\* Boolean(s) of a string: it is not empty.
Truthy(parts) == \E k \in 1..Len(parts) : parts[k] # ""

StartOfConversation == "This is the start of the conversation."

\* const historyContext = recentHistory.length > 0 ? ... : '...'
HistoryContext(chatHistory) ==
  LET recentHistory == RecentHistory(chatHistory)
      lines         == [k \in 1..Len(recentHistory) |-> RenderTurn(recentHistory[k])]
  IN IF Len(recentHistory) > 0
       THEN Join(SelectSeq(lines, Truthy), "\n")
       ELSE <<StartOfConversation>>

\* const fullPrompt = <systemPrompt>..Conversation History:.. (the template
\* literal of sendMessage); the message is the sequence of its characters.
FullPrompt(systemPrompt, historyContext, message) ==
  systemPrompt \o <<"\n\nConversation History:\n">> \o historyContext
    \o <<"\n\nStudent: ">> \o message \o <<"\n\nTutor (respond in JSON format):">>

\* Inputs.  The content of the turn at position k of a history and the
\* reply it carries name the position, so that the turns of a history are
\* told apart.
TurnContents == <<"content-01", "content-02", "content-03", "content-04", "content-05",
                  "content-06", "content-07", "content-08", "content-09", "content-10",
                  "content-11", "content-12", "content-13", "content-14", "content-15",
                  "content-16", "content-17", "content-18", "content-19", "content-20">>

TurnReplies == <<"reply-01", "reply-02", "reply-03", "reply-04", "reply-05",
                 "reply-06", "reply-07", "reply-08", "reply-09", "reply-10",
                 "reply-11", "reply-12", "reply-13", "reply-14", "reply-15",
                 "reply-16", "reply-17", "reply-18", "reply-19", "reply-20">>

\* The four kinds of turn: 0 a user turn, 1 an assistant turn with a reply,
\* 2 an assistant turn whose data has no reply, 3 an assistant turn whose
\* data has the empty reply.
TurnKinds == 0..3

TurnOfKind(kind, k) ==
  IF kind = 0 THEN ChatMessage("user", TurnContents[k], FALSE, FALSE, "")
  ELSE IF kind = 1 THEN ChatMessage("assistant", TurnContents[k], TRUE, TRUE, TurnReplies[k])
  ELSE IF kind = 2 THEN ChatMessage("assistant", TurnContents[k], TRUE, FALSE, "")
  ELSE ChatMessage("assistant", TurnContents[k], TRUE, TRUE, "")

\* The history of the given length whose kinds of turn repeat the pattern.
HistoryOf(pattern, length) ==
  [k \in 1..length |-> TurnOfKind(pattern[((k - 1) % Len(pattern)) + 1], k)]

\* Request bodies: any language or none, a history of up to MaxHistory turns
\* whose kinds repeat with period PatternPeriod, one utterance.
SendMessageDtos ==
  { [message |-> <<"h", "i">>, targetLanguage |-> lang, chatHistory |-> HistoryOf(pattern, length)] :
      lang \in SupportedLanguage \cup {Omitted},
      pattern \in [1..PatternPeriod -> TurnKinds],
      length \in 0..MaxHistory }

\* The request bodies of the calls in progress, in English: the second one
\* continues a conversation of two turns, the others open one.
DtosOf(r) ==
  { [message |-> UserMessageOf(r), targetLanguage |-> "english",
     chatHistory |-> IF r = 2 THEN HistoryOf(<<0, 1>>, 2) ELSE <<>>] }

\* Request bodies with the language given as English or left out, for two
\* utterances and histories of no, two and MaxHistory turns.
EnglishDtos ==
  { [message |-> UserMessageOf(r), targetLanguage |-> lang,
     chatHistory |-> HistoryOf(<<0, 1, 2>>, length)] :
      r \in 1..2, lang \in {Omitted, "english"}, length \in {0, 2, MaxHistory} }

\* ------------------------------------------------------------------------
\* State
\* ------------------------------------------------------------------------

VARIABLES
  currentModelIndex,  \* ChatService.currentModelIndex, shared by all requests
  pc,                 \* per request: where its sendMessage call stands
  dto,                \* per request: argument dto of ChatController.sendMessage
  userMessage,        \* per request: argument userMessage of sendMessage
  chatHistory,        \* per request: argument chatHistory of sendMessage
  targetLanguage,     \* per request: argument targetLanguage of sendMessage
  fullPrompt,         \* per request: local fullPrompt of sendMessage
  startIndex,         \* per request: local startIndex of generateWithFallback
  i,                  \* per request: loop variable i of generateWithFallback
  lastError,          \* per request: local lastError of generateWithFallback
  gwResult,           \* per request: how generateWithFallback completed
  outcome,            \* per request: how sendMessage completed
  attempts,           \* history: per request, the invocations it made, in order
  provided,           \* history: per request, the last completion the provider delivered
  lastOk              \* history: the model of the last successful invocation of the process

vars == <<currentModelIndex, pc, dto, userMessage, chatHistory, targetLanguage, fullPrompt,
          startIndex, i, lastError, gwResult, outcome, attempts, provided, lastOk>>

\* A completion is a return or a throw with its value; "none" while running.
NoCompletion == [kind |-> "none", value |-> <<>>]

Return(value) == [kind |-> "return", value |-> value]

Throw(value) == [kind |-> "throw", value |-> value]

NothingProvided == [kind |-> "none", model |-> -2, payload |-> <<>>]

\* No request body.
NoBody == [message |-> <<>>, targetLanguage |-> Omitted, chatHistory |-> <<>>]

\* No invocation has succeeded yet.
NoSuccess == -2

\* private currentModelIndex = 0; no request in progress.
Init ==
  /\ currentModelIndex = 0
  /\ pc = [r \in Requests |-> "idle"]
  /\ dto = [r \in Requests |-> NoBody]
  /\ userMessage = [r \in Requests |-> <<>>]
  /\ chatHistory = [r \in Requests |-> <<>>]
  /\ targetLanguage = [r \in Requests |-> ""]
  /\ fullPrompt = [r \in Requests |-> <<>>]
  /\ startIndex = [r \in Requests |-> 0]
  /\ i = [r \in Requests |-> 0]
  /\ lastError = [r \in Requests |-> NullError]
  /\ gwResult = [r \in Requests |-> NoCompletion]
  /\ outcome = [r \in Requests |-> NoCompletion]
  /\ attempts = [r \in Requests |-> <<>>]
  /\ provided = [r \in Requests |-> NothingProvided]
  /\ lastOk = NoSuccess

\* One invocation of the history: the model invoked, the prompt passed to
\* generateContent and how it ended ("pending", "ok", "rate" or "other").
\* The argument is kept for the call in flight only.
Attempt(model, prompt, result) == [model |-> model, prompt |-> prompt, result |-> result]

\* The history with the result of its last (pending) invocation filled in.
Settle(log, result) == [log EXCEPT ![Len(log)].result = result, ![Len(log)].prompt = <<>>]

\* The prompt the invocation in flight was given.
Prompted(log) == log[Len(log)].prompt

\* Variant: the scan always starts at the head of the list.
ModelIndex_FromHead(start, k) == k % NumModels

\* Variant: the index is not reduced modulo the length of the list.
ModelIndex_NoMod(start, k) == start + k

\* Variant: the cursor is read again at every iteration.
ModelIndex_RereadCursor(start, k) == (currentModelIndex + k) % NumModels

\* const modelIndex = (startIndex + i) % GEMINI_MODELS.length
ModelIndex(start, k) == (start + k) % NumModels

\* The model of the invocation in flight.
Invoked(log) == log[Len(log)].model

\* ------------------------------------------------------------------------
\* Operations
\*
\* A request yields to other requests only while a provider call is in
\* flight: the continuations between the settlement of that call and the
\* next provider call, or the completion of sendMessage, are promise
\* reactions that run before the next I/O event is processed.
\* ------------------------------------------------------------------------

\* The language sendMessage works with: the controller passes
\* dto.targetLanguage || 'english', the parameter defaults to 'english'.
ResolvedLanguage(body) == DefaultLanguage(ControllerLanguage(body.targetLanguage))

\* The history sendMessage works with: chatHistory: ChatMessage[] = []
ResolvedHistory(body) == body.chatHistory

\* Variant: the service keeps the turns it has seen in a field and puts them
\* in front of the history of the call.
BuildPrompt_RemembersTurns(message, history, language) ==
  LET others == {q \in Requests : pc[q] # "idle" /\ chatHistory[q] # <<>>}
      seen   == IF others = {} THEN <<>> ELSE chatHistory[CHOOSE q \in others : TRUE]
  IN FullPrompt(getSystemPrompt(language), HistoryContext(seen \o history), message)

\* Lines 276 to 294 of sendMessage: the prompt for a message, a history and
\* a language.
BuildPrompt(message, history, language) ==
  FullPrompt(getSystemPrompt(language), HistoryContext(history), message)

\* this.chatService.sendMessage(dto.message, dto.chatHistory,
\* dto.targetLanguage || 'english'): sendMessage builds the prompt and runs
\* synchronously into generateWithFallback; that reads the cursor, starts
\* the loop and invokes the first model with the prompt (up to the first
\* await).
ServiceCall(r, body) ==
  /\ LET language == ResolvedLanguage(body)
         history  == ResolvedHistory(body)
         prompt   == BuildPrompt(body.message, history, language)
     IN /\ userMessage' = [userMessage EXCEPT ![r] = body.message]
        /\ chatHistory' = [chatHistory EXCEPT ![r] = history]
        /\ targetLanguage' = [targetLanguage EXCEPT ![r] = language]
        /\ fullPrompt' = [fullPrompt EXCEPT ![r] = prompt]
        /\ attempts' = [attempts EXCEPT ![r] =
              <<Attempt(ModelIndex(currentModelIndex, 0), prompt, "pending")>>]
  /\ startIndex' = [startIndex EXCEPT ![r] = currentModelIndex]
  /\ i' = [i EXCEPT ![r] = 0]
  /\ lastError' = [lastError EXCEPT ![r] = NullError]
  /\ pc' = [pc EXCEPT ![r] = "awaiting"]
  /\ UNCHANGED <<currentModelIndex, gwResult, outcome, provided, lastOk>>

\* ChatController.sendMessage receives a request body and calls the
\* service.
SendMessage(r, body) ==
  /\ pc[r] = "idle"
  /\ dto' = [dto EXCEPT ![r] = body]
  /\ ServiceCall(r, body)

\* The try block of the loop after a successful invocation: the value
\* assigned to this.currentModelIndex.
CursorOnSuccess(modelIndex) == modelIndex

\* sendMessage after generateWithFallback completed: the parsed or fallback
\* response for a returned text, the classified HttpException for a thrown
\* error (also for one escaping the parsing).
SendMessageCompletion(utterance, gw) ==
  IF gw.kind = "return"
    THEN LET parsed == ParseResponse(utterance, gw.value)
         IN IF parsed.kind = "return" THEN parsed
                                      ELSE Throw(ClassifyError(parsed.value))
    ELSE Throw(ClassifyError(gw.value))

\* Variant: the utterance is kept in a field of the service, which a later
\* request overwrites.
InvocationResolves_SharedUtterance(r, t) ==
  /\ pc[r] = "awaiting"
  /\ currentModelIndex' = CursorOnSuccess(ModelIndex(startIndex[r], i[r]))
  /\ provided' = [provided EXCEPT ![r] = [kind |-> "text", model |-> Invoked(attempts[r]), payload |-> t]]
  /\ lastOk' = Invoked(attempts[r])
  /\ gwResult' = [gwResult EXCEPT ![r] = Return(t)]
  /\ LET others == {q \in Requests \ {r} : pc[q] # "idle"}
         field  == IF others = {} THEN userMessage[r]
                                  ELSE userMessage[CHOOSE q \in others : TRUE]
     IN outcome' = [outcome EXCEPT ![r] = SendMessageCompletion(field, Return(t))]
  /\ attempts' = [attempts EXCEPT ![r] = Settle(@, "ok")]
  /\ pc' = [pc EXCEPT ![r] = "done"]
  /\ UNCHANGED <<dto, userMessage, chatHistory, targetLanguage, fullPrompt, startIndex, i, lastError>>

\* Variant: the text is not returned from inside the loop, which goes on
\* to the next model.
InvocationResolves_KeepsScanning(r, t) ==
  /\ pc[r] = "awaiting"
  /\ currentModelIndex' = CursorOnSuccess(ModelIndex(startIndex[r], i[r]))
  /\ provided' = [provided EXCEPT ![r] = [kind |-> "text", model |-> Invoked(attempts[r]), payload |-> t]]
  /\ lastOk' = Invoked(attempts[r])
  /\ IF i[r] + 1 < NumModels
       THEN /\ i' = [i EXCEPT ![r] = @ + 1]
            /\ attempts' = [attempts EXCEPT ![r] =
                  Append(Settle(@, "ok"),
                         Attempt(ModelIndex(startIndex[r], i[r] + 1), fullPrompt[r], "pending"))]
            /\ UNCHANGED <<pc, gwResult, outcome>>
       ELSE /\ gwResult' = [gwResult EXCEPT ![r] = Return(t)]
            /\ outcome' = [outcome EXCEPT ![r] = SendMessageCompletion(userMessage[r], Return(t))]
            /\ attempts' = [attempts EXCEPT ![r] = Settle(@, "ok")]
            /\ pc' = [pc EXCEPT ![r] = "done"]
            /\ UNCHANGED i
  /\ UNCHANGED <<dto, userMessage, chatHistory, targetLanguage, fullPrompt, startIndex, lastError>>

\* Variant: the cursor is written after the text has been parsed, and only
\* when it is JSON.
InvocationResolves_CursorAfterParse(r, t) ==
  /\ pc[r] = "awaiting"
  /\ currentModelIndex' =
       IF JSONParse(CleanText(t)).ok
         THEN CursorOnSuccess(ModelIndex(startIndex[r], i[r]))
         ELSE currentModelIndex
  /\ provided' = [provided EXCEPT ![r] = [kind |-> "text", model |-> Invoked(attempts[r]), payload |-> t]]
  /\ lastOk' = Invoked(attempts[r])
  /\ gwResult' = [gwResult EXCEPT ![r] = Return(t)]
  /\ outcome' = [outcome EXCEPT ![r] = SendMessageCompletion(userMessage[r], Return(t))]
  /\ attempts' = [attempts EXCEPT ![r] = Settle(@, "ok")]
  /\ pc' = [pc EXCEPT ![r] = "done"]
  /\ UNCHANGED <<dto, userMessage, chatHistory, targetLanguage, fullPrompt, startIndex, i, lastError>>

\* Variant: the cursor is written only if it still is what the request read
\* when it was called.
InvocationResolves_DropsStaleWrite(r, t) ==
  /\ pc[r] = "awaiting"
  /\ currentModelIndex' =
       IF currentModelIndex = startIndex[r]
         THEN CursorOnSuccess(ModelIndex(startIndex[r], i[r]))
         ELSE currentModelIndex
  /\ provided' = [provided EXCEPT ![r] = [kind |-> "text", model |-> Invoked(attempts[r]), payload |-> t]]
  /\ lastOk' = Invoked(attempts[r])
  /\ gwResult' = [gwResult EXCEPT ![r] = Return(t)]
  /\ outcome' = [outcome EXCEPT ![r] = SendMessageCompletion(userMessage[r], Return(t))]
  /\ attempts' = [attempts EXCEPT ![r] = Settle(@, "ok")]
  /\ pc' = [pc EXCEPT ![r] = "done"]
  /\ UNCHANGED <<dto, userMessage, chatHistory, targetLanguage, fullPrompt, startIndex, i, lastError>>

\* The invocation in flight succeeds (generateContent and result.response
\* resolve, response.text() yields t): the cursor is set to the model index,
\* generateWithFallback returns the text, sendMessage parses it and returns.
InvocationResolves(r, t) ==
  /\ pc[r] = "awaiting"
  /\ currentModelIndex' = CursorOnSuccess(ModelIndex(startIndex[r], i[r]))
  /\ provided' = [provided EXCEPT ![r] = [kind |-> "text", model |-> Invoked(attempts[r]), payload |-> t]]
  /\ lastOk' = Invoked(attempts[r])
  /\ gwResult' = [gwResult EXCEPT ![r] = Return(t)]
  /\ outcome' = [outcome EXCEPT ![r] = SendMessageCompletion(userMessage[r], Return(t))]
  /\ attempts' = [attempts EXCEPT ![r] = Settle(@, "ok")]
  /\ pc' = [pc EXCEPT ![r] = "done"]
  /\ UNCHANGED <<dto, userMessage, chatHistory, targetLanguage, fullPrompt, startIndex, i, lastError>>

\* Variant: every error moves on to the next model.
AfterFailure_RetryAny(error, k) ==
  IF k + 1 < NumModels THEN "next" ELSE "exhausted"

\* The catch block of the loop decides for the error of iteration k:
\* "next" (continue), "exhausted" (the loop ends) or "rethrow".
AfterFailure(error, k) ==
  IF isRateLimitError(error)
    THEN IF k + 1 < NumModels THEN "next" ELSE "exhausted"
    ELSE "rethrow"

\* Variant: exhaustion throws a fresh error that drops the last one.
ExhaustedError_Fresh(last) == MakeError(AllUnavailableMsg, -1)

\* throw lastError || new Error('All Gemini models are unavailable')
ExhaustedError(last) ==
  IF last # NullError THEN last ELSE MakeError(AllUnavailableMsg, -1)

\* Variant: when the list is exhausted the last model is invoked again.
RejectEffect_RetriesLastModel(r, message) ==
  /\ pc[r] = "awaiting"
  /\ LET error    == MakeError(message, Invoked(attempts[r]))
         decision == AfterFailure(error, i[r])
         result   == IF isRateLimitError(error) THEN "rate" ELSE "other"
     IN /\ lastError' = [lastError EXCEPT ![r] = error]
        /\ provided' = [provided EXCEPT ![r] = [kind |-> "error", model |-> Invoked(attempts[r]), payload |-> message]]
        /\ IF decision = "exhausted"
             THEN UNCHANGED <<pc, gwResult, outcome, i, attempts>>
           ELSE IF decision = "next"
             THEN /\ i' = [i EXCEPT ![r] = @ + 1]
                  /\ attempts' = [attempts EXCEPT ![r] =
                        Append(Settle(@, result),
                               Attempt(ModelIndex(startIndex[r], i[r] + 1), fullPrompt[r], "pending"))]
                  /\ UNCHANGED <<pc, gwResult, outcome>>
             ELSE LET gw == Throw(IF decision = "exhausted" THEN ExhaustedError(error) ELSE error)
                  IN /\ gwResult' = [gwResult EXCEPT ![r] = gw]
                     /\ outcome' = [outcome EXCEPT ![r] = SendMessageCompletion(userMessage[r], gw)]
                     /\ attempts' = [attempts EXCEPT ![r] = Settle(@, result)]
                     /\ pc' = [pc EXCEPT ![r] = "done"]
                     /\ UNCHANGED i
  /\ UNCHANGED <<dto, userMessage, chatHistory, targetLanguage, fullPrompt, startIndex, lastOk>>

\* The invocation in flight fails with an error carrying the given message
\* (generateContent or result.response rejects, or response.text() throws):
\* the catch block of the loop runs; it invokes the following model, or
\* generateWithFallback throws and the outer catch of sendMessage throws
\* the HttpException.  Everything but the cursor.
RejectEffect(r, message) ==
  /\ pc[r] = "awaiting"
  /\ LET error    == MakeError(message, Invoked(attempts[r]))
         decision == AfterFailure(error, i[r])
         result   == IF isRateLimitError(error) THEN "rate" ELSE "other"
     IN /\ lastError' = [lastError EXCEPT ![r] = error]
        /\ provided' = [provided EXCEPT ![r] = [kind |-> "error", model |-> Invoked(attempts[r]), payload |-> message]]
        /\ IF decision = "next"
             THEN /\ i' = [i EXCEPT ![r] = @ + 1]
                  /\ attempts' = [attempts EXCEPT ![r] =
                        Append(Settle(@, result),
                               Attempt(ModelIndex(startIndex[r], i[r] + 1), fullPrompt[r], "pending"))]
                  /\ UNCHANGED <<pc, gwResult, outcome>>
             ELSE LET gw == Throw(IF decision = "exhausted" THEN ExhaustedError(error) ELSE error)
                  IN /\ gwResult' = [gwResult EXCEPT ![r] = gw]
                     /\ outcome' = [outcome EXCEPT ![r] = SendMessageCompletion(userMessage[r], gw)]
                     /\ attempts' = [attempts EXCEPT ![r] = Settle(@, result)]
                     /\ pc' = [pc EXCEPT ![r] = "done"]
                     /\ UNCHANGED i
  /\ UNCHANGED <<dto, userMessage, chatHistory, targetLanguage, fullPrompt, startIndex, lastOk>>

\* Variant: a failed invocation resets the cursor.
InvocationRejects_ResetCursor(r, message) ==
  /\ RejectEffect(r, message)
  /\ currentModelIndex' = 0

\* The catch block never assigns currentModelIndex.
InvocationRejects(r, message) ==
  /\ RejectEffect(r, message)
  /\ UNCHANGED currentModelIndex

\* The caller has its response; nothing of the request is kept but the
\* cursor.
Respond(r) ==
  /\ pc[r] = "done"
  /\ pc' = [pc EXCEPT ![r] = "idle"]
  /\ dto' = [dto EXCEPT ![r] = NoBody]
  /\ userMessage' = [userMessage EXCEPT ![r] = <<>>]
  /\ chatHistory' = [chatHistory EXCEPT ![r] = <<>>]
  /\ targetLanguage' = [targetLanguage EXCEPT ![r] = ""]
  /\ fullPrompt' = [fullPrompt EXCEPT ![r] = <<>>]
  /\ startIndex' = [startIndex EXCEPT ![r] = 0]
  /\ i' = [i EXCEPT ![r] = 0]
  /\ lastError' = [lastError EXCEPT ![r] = NullError]
  /\ gwResult' = [gwResult EXCEPT ![r] = NoCompletion]
  /\ outcome' = [outcome EXCEPT ![r] = NoCompletion]
  /\ attempts' = [attempts EXCEPT ![r] = <<>>]
  /\ provided' = [provided EXCEPT ![r] = NothingProvided]
  /\ UNCHANGED <<currentModelIndex, lastOk>>

Next ==
  \/ \E r \in Requests : \E body \in DtosOf(r) : SendMessage(r, body)
  \/ \E r \in Requests : \E t \in TextsOf(r) : InvocationResolves(r, t)
  \/ \E r \in Requests : \E message \in MessagesOf(r) : InvocationRejects(r, message)
  \/ \E r \in Requests : Respond(r)

Spec == Init /\ [][Next]_vars

\* The prompt builder on its own: one call of sendMessage with any of the
\* request bodies, up to its first model invocation.
PromptNext == \E body \in SendMessageDtos : SendMessage(1, body)

PromptSpec == Init /\ [][PromptNext]_vars

\* One request at a time, with the language given as English or left out,
\* and every outcome of its model invocations.
SoloNext ==
  \/ \E body \in EnglishDtos : SendMessage(1, body)
  \/ \E t \in TextsOf(1) : InvocationResolves(1, t)
  \/ \E message \in MessagesOf(1) : InvocationRejects(1, message)
  \/ Respond(1)

SoloSpec == Init /\ [][SoloNext]_vars

\* The normaliser on its own: one request at a time whose model answers
\* with an object, wrapped or not.
NormNext ==
  \/ \E body \in DtosOf(1) : SendMessage(1, body)
  \/ \E t \in FencedTexts : InvocationResolves(1, t)
  \/ Respond(1)

NormSpec == Init /\ [][NormNext]_vars

\* Messages of failed invocations and text of successful ones where
\* termination is followed: the first request meets every pattern of
\* failures, the second one succeeds or is rate limited, the requests
\* beyond it succeed.
LiveMessagesOf(r) ==
  IF r = 1 THEN {Msg429, MsgQuotaUpper, MsgBoom}
  ELSE IF r = 2 THEN {Msg429}
  ELSE {}

LiveTexts == {TextSorry}

LiveNext ==
  \/ \E r \in Requests : \E body \in DtosOf(r) : SendMessage(r, body)
  \/ \E r \in Requests : \E t \in LiveTexts : InvocationResolves(r, t)
  \/ \E r \in Requests : \E message \in LiveMessagesOf(r) : InvocationRejects(r, message)
  \/ \E r \in Requests : Respond(r)

\* The model invocation of the request that is in flight completes: it
\* resolves or it rejects.
Completes(r) ==
  \/ \E t \in LiveTexts : InvocationResolves(r, t)
  \/ \E message \in LiveMessagesOf(r) : InvocationRejects(r, message)

\* Every model invocation eventually completes or errors (the network-level
\* timeout of the provider call); nothing is assumed about when requests
\* arrive or are answered.
LiveSpec == Init /\ [][LiveNext]_vars /\ \A r \in Requests : WF_vars(Completes(r))

\* Two overlapping requests whose order of arrival is fixed: the first
\* request is called while the second one is not in progress, the second
\* one while the first one awaits a model; so whenever both are in progress
\* the second one was called last.
RaceNext ==
  \/ \E body \in DtosOf(1) : pc[2] = "idle" /\ SendMessage(1, body)
  \/ \E body \in DtosOf(2) : pc[1] = "awaiting" /\ SendMessage(2, body)
  \/ \E r \in 1..2 : \E t \in TextsOf(r) : InvocationResolves(r, t)
  \/ \E r \in 1..2 : \E message \in MessagesOf(r) : InvocationRejects(r, message)
  \/ \E r \in 1..2 : Respond(r)

RaceSpec == Init /\ [][RaceNext]_vars

\* ------------------------------------------------------------------------
\* Properties
\* ------------------------------------------------------------------------

\* The request is completed.
Done(r) == pc[r] = "done"

\* Every invocation of the history but the last one failed with a
\* rate-limit error.
EarlierAllRateLimited(log) == \A j \in 1..(Len(log) - 1) : log[j].result = "rate"

\* Every model was invoked and every invocation failed with a rate-limit
\* error.
Exhausted(log) == Len(log) = NumModels /\ \A j \in 1..Len(log) : log[j].result = "rate"

\* The step in which the invocation in flight of r succeeds.
Succeeds(r) == provided[r].kind # "text" /\ provided'[r].kind = "text"

\* C1: when the models at s, s+1, .., s+k-1 (mod n) fail with rate-limit
\* errors and the model at (s+k) mod n succeeds, generateWithFallback returns
\* the text that model produced and the cursor becomes (s+k) mod n; a request
\* that starts while that is the last success invokes that model first.
C1_FallbackDeterminism ==
  [][ /\ \A r \in Requests :
           (Succeeds(r) /\ EarlierAllRateLimited(attempts[r])) =>
             LET s == startIndex[r]
                 k == Len(attempts[r]) - 1
             IN /\ \A j \in 0..k : attempts[r][j + 1].model = (s + j) % NumModels
                /\ provided'[r].model = (s + k) % NumModels
                /\ gwResult'[r].kind = "return"
                /\ gwResult'[r].value = provided'[r].payload
                /\ currentModelIndex' = (s + k) % NumModels
      /\ \A r \in Requests :
           (pc[r] = "idle" /\ pc'[r] = "awaiting" /\ lastOk # NoSuccess) =>
             /\ Len(attempts'[r]) = 1
             /\ attempts'[r][1].model = lastOk ]_vars

\* C1 witness: a request that started at cursor 1 returned after two
\* rate-limit failures (models 1 and 2) with the text of model 0, and the
\* next request has invoked model 0 first.
C1_Witness ==
  \E r, q \in Requests :
    /\ r # q
    /\ Done(r) /\ gwResult[r].kind = "return"
    /\ startIndex[r] = 1 /\ Len(attempts[r]) = NumModels
    /\ currentModelIndex = 0
    /\ pc[q] = "awaiting" /\ attempts[q] = <<Attempt(0, fullPrompt[q], "pending")>>

\* C2: an invocation that failed with an error that is not a rate-limit
\* error is the last invocation of its request, at whatever position of the
\* scan, and generateWithFallback has thrown that very error.
C2_NonRateLimitShortCircuits ==
  \A r \in Requests : \A j \in 1..Len(attempts[r]) :
    attempts[r][j].result = "other" =>
      /\ j = Len(attempts[r])
      /\ Done(r)
      /\ provided[r].kind = "error"
      /\ provided[r].model = attempts[r][j].model
      /\ ~isRateLimitError(MakeError(provided[r].payload, provided[r].model))
      /\ gwResult[r] = Throw(MakeError(provided[r].payload, provided[r].model))

\* C2 witness: the third invocation of a request failed with an error that
\* is not a rate-limit error.
C2_Witness ==
  \E r \in Requests :
    /\ Len(attempts[r]) = NumModels
    /\ attempts[r][NumModels].result = "other"
    /\ gwResult[r].kind = "throw"

\* C3: when all n models failed with rate-limit errors, generateWithFallback
\* has thrown once, the error it threw is the last error, that of model
\* (start + n - 1) mod n; and as long as fewer than n models have failed with
\* rate-limit errors nothing is thrown for them.
C3_ExhaustionThrowsLastError ==
  \A r \in Requests :
    /\ Exhausted(attempts[r]) =>
         /\ Done(r)
         /\ provided[r].kind = "error"
         /\ provided[r].model = (startIndex[r] + NumModels - 1) % NumModels
         /\ gwResult[r] = Throw(MakeError(provided[r].payload, provided[r].model))
    /\ (/\ Len(attempts[r]) > 0
        /\ Len(attempts[r]) < NumModels
        /\ \A j \in 1..Len(attempts[r]) : attempts[r][j].result \in {"rate", "pending"}) =>
         /\ ~Done(r)
         /\ gwResult[r] = NoCompletion

\* C3 witness: a request that started at cursor 2 exhausted all models, the
\* last error being that of model 1.
C3_Witness ==
  \E r \in Requests :
    /\ Exhausted(attempts[r])
    /\ startIndex[r] = 2
    /\ gwResult[r].kind = "throw"
    /\ gwResult[r].value.model = 1

RateLimitedException == [status |-> HTTP_TOO_MANY_REQUESTS, message |-> RateLimitedMsg]

\* C4 (as claimed): sendMessage fails with the "all models rate limited"
\* condition (429) if and only if every model was invoked and every one
\* failed with a rate-limit error, whatever the last error's message holds.
C4_RateLimitedIffExhausted ==
  \A r \in Requests :
    Done(r) => ((outcome[r] = Throw(RateLimitedException)) <=> Exhausted(attempts[r]))

\* C5 (as claimed): after a failure that is not a rate-limit error
\* sendMessage fails with status 500 and the message "Failed to get AI
\* response: " followed by a text that carries the provider's message.
C5_GenericCarriesMessage ==
  \A r \in Requests :
    (Done(r) /\ attempts[r][Len(attempts[r])].result = "other") =>
      /\ outcome[r].kind = "throw"
      /\ outcome[r].value.status = HTTP_INTERNAL_SERVER_ERROR
      /\ MatchesAt(outcome[r].value.message, 1, FailedPrefix)
      /\ Includes(outcome[r].value.message, provided[r].payload)

\* C5 (amended): after a failure that is not a rate-limit error sendMessage
\* fails with status 500; the message is 'Invalid API key configuration'
\* when the provider's message contains 'API_KEY', and otherwise "Failed to
\* get AI response: " followed by the provider's message, or by 'Unknown
\* error' when that message is empty.
C5_GenericUnlessApiKey ==
  \A r \in Requests :
    (Done(r) /\ attempts[r][Len(attempts[r])].result = "other") =>
      /\ outcome[r].kind = "throw"
      /\ outcome[r].value.status = HTTP_INTERNAL_SERVER_ERROR
      /\ outcome[r].value.message =
           IF Includes(provided[r].payload, NeedleApiKey) THEN InvalidApiKeyMsg
           ELSE IF provided[r].payload = <<>> THEN FailedPrefix \o UnknownErrorMsg
           ELSE FailedPrefix \o provided[r].payload

\* C5 witness: a request failed on the error 'boom' and its caller got
\* "Failed to get AI response: boom".
C5_Witness ==
  \E r \in Requests :
    /\ Done(r)
    /\ provided[r].kind = "error" /\ provided[r].payload = MsgBoom
    /\ outcome[r] = Throw([status |-> HTTP_INTERNAL_SERVER_ERROR, message |-> FailedPrefix \o MsgBoom])

\* C6: the list of models is not empty and the cursor is an index into it.
C6_CursorInRange ==
  /\ NumModels > 0
  /\ currentModelIndex \in 0..(NumModels - 1)

\* C6 witness: the cursor is at the last model while one request has failed
\* and another one has succeeded.
C6_Witness ==
  /\ currentModelIndex = NumModels - 1
  /\ \E r, q \in Requests :
       /\ Done(r) /\ outcome[r].kind = "throw"
       /\ Done(q) /\ outcome[q].kind = "return"

\* C7: the cursor starts at 0; a step changes it only when an invocation
\* succeeds in that step, to the index of the model invoked; a step in which
\* a request ends in an error leaves it as it was.
C7_CursorWrittenOnSuccessOnly ==
  /\ currentModelIndex = 0
  /\ [][ /\ currentModelIndex' # currentModelIndex =>
             \E r \in Requests : /\ Succeeds(r)
                                  /\ currentModelIndex' = Invoked(attempts[r])
                                  /\ currentModelIndex' = (startIndex[r] + i[r]) % NumModels
         /\ \A r \in Requests :
              (~Done(r) /\ Done(r)' /\ outcome'[r].kind = "throw") =>
                currentModelIndex' = currentModelIndex ]_vars

\* C7 witness: a request has ended in an error while the cursor is not 0.
C7_Witness ==
  \E r \in Requests :
    /\ Done(r) /\ outcome[r].kind = "throw"
    /\ currentModelIndex # 0

\* The texts of the model that JSON.parse accepts after cleaning.
ParseableTexts == {t \in ModelTexts : JSONParse(CleanText(t)).ok}

\* C8: a request one of whose invocations succeeded has returned
\* { success: true, data }, whatever the text.
C8_SuccessNeverRaises ==
  \A r \in Requests :
    (Done(r) /\ attempts[r][Len(attempts[r])].result = "ok") =>
      /\ outcome[r].kind = "return"
      /\ outcome[r].value.success = TRUE

\* C8 witness: a request whose model answered with text that is not JSON
\* has returned.
C8_Witness ==
  \E r \in Requests :
    /\ Done(r) /\ outcome[r].kind = "return"
    /\ provided[r].kind = "text" /\ provided[r].payload = TextSorry

\* C9: when the cleaned text is not JSON, the data returned has original and
\* correction equal to the utterance of this request, reply equal to the raw
\* text of the model, and the three other fields empty.
C9_FallbackShape ==
  \A r \in Requests :
    (Done(r) /\ provided[r].kind = "text" /\ provided[r].payload \notin ParseableTexts) =>
      outcome[r] =
        Return([success |-> TRUE,
                data |-> [t |-> "object",
                          v |-> << <<KeyOriginal, [t |-> "string", v |-> UserMessageOf(r)]>>,
                                   <<KeyCorrection, [t |-> "string", v |-> UserMessageOf(r)]>>,
                                   <<KeyCorrectionPronunciation, [t |-> "string", v |-> <<>>]>>,
                                   <<KeyExplanation, [t |-> "string", v |-> <<>>]>>,
                                   <<KeyReply, [t |-> "string", v |-> provided[r].payload]>>,
                                   <<KeyPronunciation, [t |-> "string", v |-> <<>>]>> >>]])

\* C9 witness: the model answered with fenced text that is not JSON and the
\* reply returned is that text with its fences.
C9_Witness ==
  \E r \in Requests :
    /\ Done(r) /\ outcome[r].kind = "return"
    /\ provided[r].kind = "text" /\ provided[r].payload = TextFencedSorry
    /\ GetProperty(outcome[r].value.data.v, KeyReply) = JString(TextFencedSorry)
    /\ CleanText(TextFencedSorry) # TextFencedSorry

\* The value is an object with the six fields of ChatResponseData, each a
\* string.
IsTutorResponse(data) ==
  /\ data.t = "object"
  /\ \A name \in ChatResponseData :
       /\ HasProperty(data.v, name)
       /\ GetProperty(data.v, name).t = "string"

\* C10 (as claimed): the data of every successful result is an object whose
\* six fields are present and are strings.
C10_DataIsTutorResponse ==
  \A r \in Requests :
    (Done(r) /\ outcome[r].kind = "return") => IsTutorResponse(outcome[r].value.data)

\* ------------------------------------------------------------------------
\* Properties of the prompt
\* ------------------------------------------------------------------------

\* The request has been called and has not completed.
Prompting(r) == pc[r] = "awaiting"

\* The position of a part in a prompt (0 when it is not a part of it).
PositionOf(parts, part) ==
  IF \E p \in 1..Len(parts) : parts[p] = part
    THEN CHOOSE p \in 1..Len(parts) : parts[p] = part
    ELSE 0

\* The parts of a prompt between the heading of the history and the
\* heading of the utterance.
ContextOf(prompt) ==
  SubSeq(prompt, PositionOf(prompt, "\n\nConversation History:\n") + 1,
                 PositionOf(prompt, "\n\nStudent: ") - 1)

\* The positions of the last min(L, 10) turns of a history of length L.
LastTen(history) ==
  { k \in 1..Len(history) : k > Len(history) - 10 }

\* The turns that are rendered: user turns, and assistant turns with a
\* non-empty reply.
IsStudentTurn(msg) == msg.role = "user"

IsTutorTurn(msg) == msg.role # "user" /\ msg.hasData /\ msg.hasReply /\ msg.reply # ""

\* The label and the text a rendered turn is shown with.
ShownLabel(msg) == IF IsStudentTurn(msg) THEN "Student: " ELSE "Tutor: "

ShownText(msg) == IF IsStudentTurn(msg) THEN msg.content ELSE msg.reply

\* C12: the history context of the prompt consists of the lines of the last
\* min(L, 10) turns of the history, in their order: 'Student: <content>' for
\* a user turn, 'Tutor: <reply>' for an assistant turn with a non-empty
\* reply, one line each and nothing else; neither the content nor the reply
\* of an older turn is anywhere in the prompt.
C12_HistoryWindow ==
  \A r \in Requests :
    Prompting(r) =>
      LET history  == chatHistory[r]
          context  == ContextOf(fullPrompt[r])
          rendered == { k \in LastTen(history) :
                          IsStudentTurn(history[k]) \/ IsTutorTurn(history[k]) }
      IN /\ \A k \in rendered :
              LET p == PositionOf(context, ShownText(history[k]))
              IN /\ p > 1
                 /\ context[p - 1] = ShownLabel(history[k])
                 /\ \A j \in rendered :
                      j < k => PositionOf(context, ShownText(history[j])) < p
         /\ rendered # {} => Len(context) = 3 * Cardinality(rendered) - 1
         /\ \A k \in 1..Len(context) : k % 3 = 0 => context[k] = "\n"
         /\ \A k \in (1..Len(history)) \ LastTen(history) :
              /\ PositionOf(fullPrompt[r], history[k].content) = 0
              /\ history[k].reply # "" => PositionOf(fullPrompt[r], history[k].reply) = 0

\* C12 witness: a prompt built for a history of more than ten turns whose
\* last ten hold a user turn and an assistant turn with a reply, and whose
\* older turns hold both kinds too.
C12_Witness ==
  \E r \in Requests :
    /\ Prompting(r)
    /\ Len(chatHistory[r]) > 10
    /\ \E j, k \in LastTen(chatHistory[r]) :
         IsStudentTurn(chatHistory[r][j]) /\ IsTutorTurn(chatHistory[r][k])
    /\ \E j, k \in (1..Len(chatHistory[r])) \ LastTen(chatHistory[r]) :
         IsStudentTurn(chatHistory[r][j]) /\ IsTutorTurn(chatHistory[r][k])

\* C13: when no turn of the last ten is rendered (the history is empty, or
\* its last ten turns are assistant turns without a reply), the history
\* context of the prompt is the start-of-conversation marker; the history
\* context is never the empty string.
C13_MarkerWhenNothingRenders ==
  \A r \in Requests :
    Prompting(r) =>
      LET history  == chatHistory[r]
          context  == ContextOf(fullPrompt[r])
          rendered == { k \in LastTen(history) :
                          IsStudentTurn(history[k]) \/ IsTutorTurn(history[k]) }
      IN /\ rendered = {} => context = <<"This is the start of the conversation.">>
         /\ \E k \in 1..Len(context) : context[k] # ""

\* The fields of a language profile.
ProfileFields ==
  {"name", "nativeName", "tutorDescription", "pronunciationSystem", "pronunciationExample",
   "exampleOriginal", "exampleCorrection", "exampleCorrectionPronunciation",
   "exampleExplanation", "exampleReply", "examplePronunciation", "specialRules"}

\* The persona and the worked example of a language profile.
PersonaAndExample(profile) ==
  {profile.tutorDescription, profile.exampleOriginal, profile.exampleCorrection,
   profile.exampleCorrectionPronunciation, profile.exampleExplanation,
   profile.exampleReply, profile.examplePronunciation}

\* C18: every one of the seven supported languages has a complete profile,
\* and the prompt built for a language holds the persona description and
\* the six fields of the worked example of that language and none of those
\* of another language.
C18_ProfileOfTheLanguage ==
  /\ Cardinality(SupportedLanguage) = 7
  /\ \A language \in SupportedLanguage :
       /\ language \in DOMAIN LANGUAGE_CONFIGS
       /\ DOMAIN LANGUAGE_CONFIGS[language] = ProfileFields
       /\ \A field \in ProfileFields \ {"specialRules"} : LANGUAGE_CONFIGS[language][field] # ""
  /\ \A r \in Requests :
       Prompting(r) =>
         /\ targetLanguage[r] \in SupportedLanguage
         /\ \A part \in PersonaAndExample(LANGUAGE_CONFIGS[targetLanguage[r]]) :
              PositionOf(fullPrompt[r], part) > 0
         /\ \A other \in SupportedLanguage \ {targetLanguage[r]} :
              \A part \in PersonaAndExample(LANGUAGE_CONFIGS[other]) :
                PositionOf(fullPrompt[r], part) = 0

\* C18 witness: a prompt built for Spanish, with the Spanish example reply.
C18_Witness ==
  \E r \in Requests :
    /\ Prompting(r)
    /\ targetLanguage[r] = "spanish"
    /\ PositionOf(fullPrompt[r], LANGUAGE_CONFIGS["spanish"].exampleReply) > 0

\* The request body with the language given as English.
WithEnglish(body) == [body EXCEPT !.targetLanguage = "english"]

\* C14: the call of the service made for a request body without
\* targetLanguage is the call made for the same body with targetLanguage
\* "english": whatever the message, the history and the cursor, it builds
\* the same prompt, invokes the same model with it and leaves the service
\* and the request in the same state, from which the same model outcomes
\* lead to the same invocations, result or error and cursor.
C14_OmittedIsEnglish ==
  [][ \A r \in Requests :
        \A body \in EnglishDtos :
          (body.targetLanguage = Omitted /\ SendMessage(r, body))
            => /\ ServiceCall(r, WithEnglish(body))
               /\ targetLanguage'[r] = "english"
               /\ fullPrompt'[r] = BuildPrompt(body.message, body.chatHistory, "english")
               /\ Prompted(attempts'[r]) = fullPrompt'[r] ]_vars

\* C14 witness: a request that came without targetLanguage and with a
\* history, while the cursor was not 0, has been answered with a parsed
\* response after a rate-limit failure.
C14_Witness ==
  \E r \in Requests :
    /\ Done(r)
    /\ dto[r].targetLanguage = Omitted
    /\ dto[r].chatHistory # <<>>
    /\ startIndex[r] # 0
    /\ Len(attempts[r]) = 2
    /\ outcome[r].kind = "return"
    /\ targetLanguage[r] = "english"

\* ------------------------------------------------------------------------
\* Properties of the normaliser
\* ------------------------------------------------------------------------

\* The object with the one property reply, of the given value.
ReplyObject(value) == JObject(<< <<KeyReply, JString(value)>> >>)

\* C11: when the model emits an object, bare or wrapped in a json fence or
\* in a plain fence, the data returned is that object, with the value of its
\* field as emitted, also when the value holds the fence marker.
C11_FenceStrippingKeepsValues ==
  \A r \in Requests :
    (Done(r) /\ provided[r].kind = "text") =>
      \A wrapper \in Wrappers :
        \A value \in ValuesUpTo(MaxValueLen) :
          provided[r].payload = Wrap(wrapper, ReplyObjectText(value))
            => outcome[r] = Return([success |-> TRUE, data |-> ReplyObject(value)])

\* ------------------------------------------------------------------------
\* Properties of interleaved requests
\* ------------------------------------------------------------------------

\* C15: a completed request has the outcome of its own last invocation: if
\* it returned, the text is the one the provider delivered to an invocation
\* this request issued with its own prompt and that succeeded, normalised
\* with its own utterance; if it failed, the error is the one the provider
\* delivered to its own last invocation, classified.  The result is that
\* function of its own invocations whatever the cursor was and whatever the
\* other requests did.
C15_OwnOutcome ==
  \A r \in Requests :
    Done(r) =>
      LET last == attempts[r][Len(attempts[r])]
      IN /\ userMessage[r] = dto[r].message
         /\ fullPrompt[r] = BuildPrompt(dto[r].message, dto[r].chatHistory, targetLanguage[r])
         /\ provided[r].kind \in {"text", "error"}
         /\ provided[r].model = last.model
         /\ provided[r].kind = "text" =>
              /\ last.result = "ok"
              /\ gwResult[r] = Return(provided[r].payload)
              /\ outcome[r] = SendMessageCompletion(dto[r].message, Return(provided[r].payload))
              /\ outcome[r].kind = "return"
         /\ provided[r].kind = "error" =>
              /\ last.result \in {"rate", "other"}
              /\ gwResult[r] = Throw(MakeError(provided[r].payload, last.model))
              /\ outcome[r] = Throw(ClassifyError(MakeError(provided[r].payload, last.model)))

\* C15 witness: two requests in flight at once have completed, one with the
\* fallback response for its own utterance after the other one moved the
\* cursor, the other with a parsed response.
C15_Witness ==
  \E r, q \in Requests :
    /\ r # q
    /\ Done(r) /\ Done(q)
    /\ startIndex[r] = 0 /\ startIndex[q] = 0
    /\ Len(attempts[q]) = 2 /\ provided[q].kind = "text"
    /\ Len(attempts[r]) = 1 /\ provided[r].kind = "text"
    /\ currentModelIndex = 0
    /\ outcome[r].value.data = FallbackData(dto[r].message, provided[r].payload)
    /\ outcome[q].value.data # FallbackData(dto[q].message, provided[q].payload)

\* C16: if every model invocation eventually completes or errors, a
\* request that has been called eventually completes, with a response or
\* with a classified error (HTTP 429 or 500), whatever the other requests
\* do; it never makes more than n model invocations.
C16_Terminates ==
  /\ [](\A r \in Requests : Len(attempts[r]) <= NumModels)
  /\ \A r \in Requests :
       (pc[r] = "awaiting") ~>
         (/\ Done(r)
          /\ \/ outcome[r].kind = "return"
             \/ /\ outcome[r].kind = "throw"
                /\ outcome[r].value.status \in {HTTP_TOO_MANY_REQUESTS, HTTP_INTERNAL_SERVER_ERROR})

\* C16 witness: a request has completed with the rate-limit error after n
\* invocations while another request was in flight.
C16_Witness ==
  \E r, q \in Requests :
    /\ r # q
    /\ Done(r) /\ Len(attempts[r]) = NumModels
    /\ outcome[r] = Throw(RateLimitedException)
    /\ pc[q] = "awaiting"

\* The variables that are local to the call of a request.
LocalsOf(r) ==
  <<pc[r], dto[r], userMessage[r], chatHistory[r], targetLanguage[r], fullPrompt[r],
    startIndex[r], i[r], lastError[r], gwResult[r], outcome[r], attempts[r], provided[r]>>

\* What the locals hold when no call is in progress.
NoLocals ==
  <<"idle", NoBody, <<>>, <<>>, "", <<>>, 0, 0, NullError, NoCompletion, NoCompletion,
    <<>>, NothingProvided>>

\* The prompt of a request in terms of its own body.
OwnPrompt(r) ==
  /\ userMessage[r] = dto[r].message
  /\ chatHistory[r] = dto[r].chatHistory
  /\ fullPrompt[r] =
       getSystemPrompt(targetLanguage[r])
         \o <<"\n\nConversation History:\n">> \o HistoryContext(dto[r].chatHistory)
         \o <<"\n\nStudent: ">> \o dto[r].message
         \o <<"\n\nTutor (respond in JSON format):">>

\* The result of a completed request in terms of its own message and of
\* what the models delivered to it.
OwnResult(r) ==
  /\ provided[r].kind = "text" =>
       outcome[r] = SendMessageCompletion(dto[r].message, Return(provided[r].payload))
  /\ provided[r].kind = "error" =>
       outcome[r] = Throw(ClassifyError(MakeError(provided[r].payload, provided[r].model)))

\* C17: nothing of a request outlives it but the cursor: a step acts for
\* one request and changes, apart from the locals of that call, at most the
\* cursor; the body of the request, with its history, and the prompt stay
\* as they are for as long as the call runs; once the request is answered
\* nothing of it is kept; the prompt a request is called with is the one
\* its own message, history and language determine, and the result it is
\* answered with is the one its own message and model outputs determine.
C17_NoConversationState ==
  /\ \A r \in Requests : LocalsOf(r) = NoLocals
  /\ [][ /\ \E r \in Requests : \A q \in Requests \ {r} : LocalsOf(q)' = LocalsOf(q)
         /\ \A r \in Requests :
              /\ (pc[r] # "idle" /\ pc'[r] # "idle") =>
                   /\ dto'[r] = dto[r]
                   /\ userMessage'[r] = userMessage[r]
                   /\ chatHistory'[r] = chatHistory[r]
                   /\ targetLanguage'[r] = targetLanguage[r]
                   /\ fullPrompt'[r] = fullPrompt[r]
              /\ (pc[r] = "idle" /\ pc'[r] # "idle") => OwnPrompt(r)'
              /\ (pc[r] = "done" /\ pc'[r] = "idle") => OwnResult(r)
              /\ pc'[r] = "idle" => LocalsOf(r)' = NoLocals ]_vars

\* C17 witness: a request that opens a conversation is in flight, after a
\* request with a history was answered and while another one with a history
\* is in flight; the cursor has moved.
C17_Witness ==
  \E r, q \in Requests :
    /\ pc[r] = "awaiting" /\ dto[r].chatHistory = <<>>
    /\ pc[q] = "awaiting" /\ dto[q].chatHistory # <<>>
    /\ startIndex[r] = 1 /\ startIndex[q] = 2
    /\ currentModelIndex = 2
    /\ PositionOf(fullPrompt[r], "This is the start of the conversation.") > 0

\* The scan of a request so far: at most n invocations, the k-th of them
\* (k from 0) of the model (start + k) mod n, no model twice, the loop
\* variable at the invocation made last.
ScanInOrder(r) ==
  /\ Len(attempts[r]) <= NumModels
  /\ \A k \in 1..Len(attempts[r]) :
       attempts[r][k].model = (startIndex[r] + (k - 1)) % NumModels
  /\ \A j, k \in 1..Len(attempts[r]) :
       j # k => attempts[r][j].model # attempts[r][k].model
  /\ pc[r] # "idle" => Len(attempts[r]) = i[r] + 1

\* C19: a request makes at most n invocations, its k-th invocation (k from
\* 0) is of the model (start + k) mod n and no model is invoked twice, start
\* being the cursor as it was when the request was called, read then and
\* kept whatever the other requests do to the cursor meanwhile; every
\* invocation is given the prompt of the request, the same as the one
\* before.
C19_ScanOrder ==
  /\ \A r \in Requests : ScanInOrder(r)
  /\ [][ \A r \in Requests :
           /\ ScanInOrder(r)'
           /\ (pc[r] = "idle" /\ pc'[r] # "idle") =>
                /\ startIndex'[r] = currentModelIndex
                /\ Len(attempts'[r]) = 1
                /\ Prompted(attempts'[r]) = fullPrompt'[r]
           /\ (pc[r] # "idle" /\ pc'[r] # "idle") =>
                /\ startIndex'[r] = startIndex[r]
                /\ fullPrompt'[r] = fullPrompt[r]
                /\ Len(attempts'[r]) > Len(attempts[r]) =>
                     /\ Len(attempts'[r]) = Len(attempts[r]) + 1
                     /\ Prompted(attempts'[r]) = Prompted(attempts[r])
                     /\ Prompted(attempts'[r]) = fullPrompt[r] ]_vars

\* C19 witness: a request called at cursor 2 is at its third invocation
\* (models 2, 0, 1) with its prompt, and another request has set the
\* cursor to 0 meanwhile.
C19_Witness ==
  \E r \in Requests :
    /\ pc[r] = "awaiting"
    /\ startIndex[r] = 2
    /\ Len(attempts[r]) = NumModels
    /\ attempts[r][1].model = 2 /\ attempts[r][2].model = 0 /\ attempts[r][3].model = 1
    /\ Prompted(attempts[r]) = fullPrompt[r]
    /\ currentModelIndex = 0
    /\ lastOk = 0

\* The invocations of a request one after the other: only the last one can
\* be in flight, and it is exactly while the request awaits; every
\* invocation before the last one has failed with a rate-limit error.
OneAtATime(r) ==
  /\ \A k \in 1..Len(attempts[r]) :
       /\ k < Len(attempts[r]) => attempts[r][k].result = "rate"
       /\ attempts[r][k].result = "pending" <=> (k = Len(attempts[r]) /\ pc[r] = "awaiting")
  /\ Cardinality({k \in 1..Len(attempts[r]) : attempts[r][k].result = "pending"}) <= 1

\* C20: a request has at most one model invocation in flight; it starts the
\* invocation of the next model only in the step in which the one in flight
\* completes with a rate-limit error, and it starts none once one of its
\* invocations has succeeded.
C20_OneInvocationInFlight ==
  /\ \A r \in Requests : OneAtATime(r)
  /\ [][ \A r \in Requests :
           /\ OneAtATime(r)'
           /\ (pc[r] # "idle" /\ Len(attempts'[r]) > Len(attempts[r])) =>
                /\ attempts[r][Len(attempts[r])].result = "pending"
                /\ attempts'[r][Len(attempts[r])].result = "rate"
                /\ provided'[r].kind = "error"
                /\ provided'[r].model = attempts[r][Len(attempts[r])].model
                /\ isRateLimitError(MakeError(provided'[r].payload, provided'[r].model))
           /\ (\E k \in 1..Len(attempts[r]) : attempts[r][k].result = "ok") =>
                /\ pc[r] = "done"
                /\ attempts'[r] = attempts[r] \/ attempts'[r] = <<>> ]_vars

\* C20 witness: a request has succeeded at its second invocation, after a
\* rate-limit error of the first, while another request has its third
\* invocation in flight.
C20_Witness ==
  \E r, q \in Requests :
    /\ r # q
    /\ Done(r)
    /\ Len(attempts[r]) = 2
    /\ attempts[r][1].result = "rate" /\ attempts[r][2].result = "ok"
    /\ pc[q] = "awaiting"
    /\ Len(attempts[q]) = 3
    /\ attempts[q][3].result = "pending"

\* ------------------------------------------------------------------------
\* Properties of the cursor under overlapping requests
\* ------------------------------------------------------------------------

\* The request succeeds in the step.
SucceedsNow(r) == pc[r] = "awaiting" /\ pc'[r] = "done" /\ provided'[r].kind = "text"

\* C21: the cursor is not synchronised: a success writes the index of its
\* model over whatever the cursor holds, also when the cursor has been
\* written since the request read its start index and when a request called
\* later has succeeded before; so the cursor is always the index written by
\* the success that completed last (0 before any).
C21_LastSuccessWins ==
  /\ currentModelIndex = 0 /\ lastOk = NoSuccess
  /\ [][ /\ \A r \in Requests :
              SucceedsNow(r) =>
                /\ currentModelIndex' = attempts[r][Len(attempts[r])].model
                /\ currentModelIndex' = (startIndex[r] + i[r]) % NumModels
                /\ lastOk' = currentModelIndex'
         /\ (\A r \in Requests : ~SucceedsNow(r)) =>
              /\ currentModelIndex' = currentModelIndex
              /\ lastOk' = lastOk ]_vars

\* C21 witness: the two requests read the same start index; the second one,
\* called last, succeeded with a later model and moved the cursor; the first
\* one, which had read its start index before that write, succeeded
\* afterwards with another model, and the cursor is the index the first one
\* wrote.
C21_Witness ==
  /\ Done(1) /\ Done(2)
  /\ startIndex[1] = startIndex[2]
  /\ provided[1].kind = "text" /\ provided[2].kind = "text"
  /\ provided[2].model # startIndex[2]
  /\ provided[1].model # startIndex[1]
  /\ provided[1].model # provided[2].model
  /\ lastOk = provided[1].model
  /\ currentModelIndex = provided[1].model
  /\ currentModelIndex # provided[2].model

\* The request is answered with the fallback response made of the raw text.
AnsweredByFallback(r) ==
  /\ outcome[r].kind = "return"
  /\ outcome[r].value.success = TRUE
  /\ GetProperty(outcome[r].value.data.v, KeyReply) = JString(provided[r].payload)
  /\ GetProperty(outcome[r].value.data.v, KeyOriginal) = JString(userMessage[r])

\* C22: in the step in which a model returns text that is not JSON the
\* request is answered through the fallback response and the cursor becomes
\* the index of the model that returned the text, as for a text that is
\* JSON.
C22_CursorSetWhateverTheText ==
  [][ \A r \in Requests :
        (SucceedsNow(r) /\ provided'[r].payload \notin ParseableTexts) =>
          /\ AnsweredByFallback(r)'
          /\ provided'[r].model = (startIndex[r] + i[r]) % NumModels
          /\ currentModelIndex' = provided'[r].model ]_vars

\* C22 witness: a request alone in progress, called with the cursor at 0,
\* got the text 'sorry' from a later model, is answered through the
\* fallback response, and the cursor is at that model.
C22_Witness ==
  \E r \in Requests :
    /\ Done(r)
    /\ provided[r].kind = "text" /\ provided[r].payload = TextSorry
    /\ AnsweredByFallback(r)
    /\ TextSorry \notin ParseableTexts
    /\ startIndex[r] = 0 /\ provided[r].model # 0
    /\ currentModelIndex = provided[r].model
    /\ \A q \in Requests \ {r} : pc[q] = "idle"

\* ------------------------------------------------------------------------
\* Properties of the failures the caller sees
\* ------------------------------------------------------------------------

InvalidApiKeyException == [status |-> HTTP_INTERNAL_SERVER_ERROR, message |-> InvalidApiKeyMsg]

GenericException(message) ==
  [status |-> HTTP_INTERNAL_SERVER_ERROR,
   message |-> FailedPrefix \o (IF message = <<>> THEN UnknownErrorMsg ELSE message)]

\* C23: a request that failed was failed by the error of its last
\* invocation, and its caller got an HttpException that is: 'Invalid API key
\* configuration' (500) when the message of that error contains 'API_KEY',
\* also when the error is a rate-limit error; otherwise 'All AI models are
\* currently rate limited...' (429) when it is a rate-limit error; otherwise
\* "Failed to get AI response: <message>" (500).  The three are different
\* from each other and none is the error of the provider.
C23_ThreeConditionsInOrder ==
  \A r \in Requests :
    (Done(r) /\ outcome[r].kind = "throw") =>
      LET raw       == gwResult[r].value
          message   == provided[r].payload
          rateLimit == attempts[r][Len(attempts[r])].result = "rate"
          thrown    == outcome[r].value
      IN /\ gwResult[r].kind = "throw" /\ provided[r].kind = "error"
         /\ raw.message = message
         /\ thrown \in {InvalidApiKeyException, RateLimitedException, GenericException(message)}
         /\ Cardinality({InvalidApiKeyException, RateLimitedException, GenericException(message)}) = 3
         /\ Includes(message, NeedleApiKey) => thrown = InvalidApiKeyException
         /\ (~Includes(message, NeedleApiKey) /\ rateLimit) => thrown = RateLimitedException
         /\ (~Includes(message, NeedleApiKey) /\ ~rateLimit) => thrown = GenericException(message)
         /\ DOMAIN thrown = {"status", "message"}
         /\ thrown # raw /\ thrown.message # raw.message

\* C23 witness: one request exhausted the models on rate-limit errors, the
\* last of which has the message 'quota API_KEY', and its caller got
\* 'Invalid API key configuration' (500), while the caller of another
\* request that exhausted the models on '429' got the 429 condition.
C23_Witness ==
  \E r, q \in Requests :
    /\ Done(r) /\ Done(q)
    /\ Exhausted(attempts[r]) /\ provided[r].payload = MsgQuotaApiKey
    /\ outcome[r] = Throw(InvalidApiKeyException)
    /\ Exhausted(attempts[q]) /\ provided[q].payload = Msg429
    /\ outcome[q] = Throw(RateLimitedException)

====
